---- MODULE Spec2Model ----
(***************************************************************************)
(* Model of the request lifecycle of the WebFrame HTTP stack: one          *)
(* connection served by myhttp.http_server.BaseHTTPRequestHandler (as      *)
(* specialised by mywerkzeug.serving.WSGIRequestHandler), reading from     *)
(* rfile and writing to wfile, together with the header-block reader of    *)
(* myhttp.http_client.                                                     *)
(*                                                                         *)
(* Text is modelled as sequences of one-character strings so that the      *)
(* string operations of the code (startswith, split, int, lower, the       *)
(* lexicographic >= of str) are computed rather than assumed.              *)
(***************************************************************************)
EXTENDS Integers, Sequences, FiniteSets, TLC

(***************************************************************************)
(* Bounds of the model                                                     *)
(***************************************************************************)
\* number of messages the peer sends on one connection
MaxRequests == 2

\* number of calls made on the handler's response methods in a row
MaxCalls == 3

\* number of calls an application makes on the bridge for one request
MaxAppCalls == 3

\* number of connections peers open to the listening socket
MaxConnections == 2

(***************************************************************************)
(* Program constants                                                       *)
(***************************************************************************)
MAXLINE == 65536
MAXHEADERS == 100
\* argument of rfile.readline in handle_one_request
RequestLineLimit == 65537

\* the drain of execute counts bytes; the model counts them in units of
\* 1000 bytes
\* self.rfile.read(10_000_000)
DRAIN_READ_SIZE == 10000
\* total_size >= 10_000_000_000
DRAIN_MAX_SIZE == 10000000
\* total_reads >= 1000
DRAIN_MAX_READS == 1000

(***************************************************************************)
(* Characters and strings                                                  *)
(***************************************************************************)
Digits == <<"0", "1", "2", "3", "4", "5", "6", "7", "8", "9">>

IsDigit(c) == \E i \in 1..10 : Digits[i] = c

Uppers == <<"A", "B", "C", "D", "E", "F", "G", "H", "I", "J", "K", "L", "M",
            "N", "O", "P", "Q", "R", "S", "T", "U", "V", "W", "X", "Y", "Z">>

Lowers == <<"a", "b", "c", "d", "e", "f", "g", "h", "i", "j", "k", "l", "m",
            "n", "o", "p", "q", "r", "s", "t", "u", "v", "w", "x", "y", "z">>

IsUpper(c) == \E i \in 1..26 : Uppers[i] = c

\* code point of a character (ord)
Ord(c) ==
    IF IsDigit(c) THEN 47 + (CHOOSE i \in 1..10 : Digits[i] = c)
    ELSE IF IsUpper(c) THEN 64 + (CHOOSE i \in 1..26 : Uppers[i] = c)
    ELSE IF \E i \in 1..26 : Lowers[i] = c
         THEN 96 + (CHOOSE i \in 1..26 : Lowers[i] = c)
    ELSE CASE c = "+" -> 43
           [] c = "-" -> 45
           [] c = "." -> 46
           [] c = "/" -> 47
           [] c = ":" -> 58
           [] c = "_" -> 95

\* str.lower() on one character
LowerOf ==
    [c \in {Uppers[k] : k \in 1..26} |->
        Lowers[CHOOSE k \in 1..26 : Uppers[k] = c]]

\* str.lower()
Lower(s) ==
    [i \in 1..Len(s) |->
        IF s[i] \in DOMAIN LowerOf THEN LowerOf[s[i]] ELSE s[i]]

\* a < b for Python str: lexicographic by code point
StrLT(a, b) ==
    \/ \E i \in (1..Len(a)) \cap (1..Len(b)) :
          /\ \A j \in 1..(i - 1) : a[j] = b[j]
          /\ Ord(a[i]) < Ord(b[i])
    \/ /\ Len(a) < Len(b)
       /\ \A j \in 1..Len(a) : a[j] = b[j]

\* index of the first occurrence of character c in s, 0 when absent
FirstIndex(s, c) ==
    IF \E i \in 1..Len(s) : s[i] = c
    THEN CHOOSE i \in 1..Len(s) : s[i] = c /\ \A j \in 1..(i - 1) : s[j] # c
    ELSE 0

RECURSIVE Split(_, _)
\* str.split(c): the pieces of s between occurrences of character c
Split(s, c) ==
    LET i == FirstIndex(s, c) IN
    IF i = 0 THEN <<s>>
    ELSE <<SubSeq(s, 1, i - 1)>> \o Split(SubSeq(s, i + 1, Len(s)), c)

\* does int(s) accept s: optional sign, digits, single underscores between digits
IsIntLiteral(s) ==
    LET body == IF Len(s) > 0 /\ s[1] \in {"+", "-"} THEN Tail(s) ELSE s IN
    /\ Len(body) > 0
    /\ \A i \in 1..Len(body) : IsDigit(body[i]) \/ body[i] = "_"
    /\ IsDigit(body[1])
    /\ IsDigit(body[Len(body)])
    /\ \A i \in 1..(Len(body) - 1) : ~(body[i] = "_" /\ body[i + 1] = "_")

RECURSIVE DigitsVal(_)
DigitsVal(s) ==
    IF s = <<>> THEN 0
    ELSE IF s[Len(s)] = "_" THEN DigitsVal(SubSeq(s, 1, Len(s) - 1))
    ELSE 10 * DigitsVal(SubSeq(s, 1, Len(s) - 1))
         + (CHOOSE i \in 1..10 : Digits[i] = s[Len(s)]) - 1

\* int(s) for an accepted literal
IntOf(s) ==
    IF s[1] = "-" THEN 0 - DigitsVal(Tail(s))
    ELSE IF s[1] = "+" THEN DigitsVal(Tail(s))
    ELSE DigitsVal(s)

\* a >= b for Python 2-tuples of int
TupleGE(a, b) == a[1] > b[1] \/ (a[1] = b[1] /\ a[2] >= b[2])

(***************************************************************************)
(* Words used by the code and by the inputs                                *)
(***************************************************************************)
GET == <<"G", "E", "T">>

HEAD == <<"H", "E", "A", "D">>

BADMETHOD == <<"B", "A", "D", "M", "E", "T", "H", "O", "D">>

Slash == <<"/">>

HttpPrefix == <<"H", "T", "T", "P", "/">>

HTTP09 == HttpPrefix \o <<"0", ".", "9">>

HTTP10 == HttpPrefix \o <<"1", ".", "0">>

HTTP11 == HttpPrefix \o <<"1", ".", "1">>

\* BaseHTTPRequestHandler.default_request_version
default_request_version == HTTP09

ConnectionName == <<"C", "o", "n", "n", "e", "c", "t", "i", "o", "n">>

CloseValue == <<"c", "l", "o", "s", "e">>

KeepAliveValue == <<"k", "e", "e", "p", "-", "a", "l", "i", "v", "e">>

\* the key parse_request looks up for the 100-continue directive
ExpectKey == <<"E", "x", "c", "p", "e", "t">>

ExpectName == <<"E", "x", "p", "e", "c", "t">>

ContinueValue == <<"1", "0", "0", "-", "c", "o", "n", "t", "i", "n", "u", "e">>

(***************************************************************************)
(* Lines of the input stream.  A line is [len, words]: len is its length   *)
(* in bytes with the line ending, words its whitespace-separated tokens.   *)
(* A line without words is "\r\n" (len 2), "\n" (len 1), the empty read    *)
(* of a closed stream (len 0) or blanks before the line ending (len > 2).  *)
(* Bytes beyond those of the listed words belong to the second word.       *)
(***************************************************************************)
Line(n, ws) == [len |-> n, words |-> ws]

CRLF == Line(2, <<>>)

EOFLine == Line(0, <<>>)

\* rfile.readline(limit): the line read and the stream left behind
Readline(rf, limit) ==
    IF rf = <<>> THEN [line |-> EOFLine, rest |-> <<>>]
    ELSE IF Head(rf).len <= limit THEN [line |-> Head(rf), rest |-> Tail(rf)]
    ELSE LET h == Head(rf) IN
         [line |-> Line(limit, SubSeq(h.words, 1,
                                     IF Len(h.words) < 2 THEN Len(h.words)
                                     ELSE 2)),
          rest |-> <<Line(h.len - limit,
                          <<<<"a">>>> \o SubSeq(h.words, 3, Len(h.words)))>>
                   \o Tail(rf)]

\* line in (b'\r\n', b'\n', b'')
IsTerminator(line) == line.words = <<>> /\ line.len <= 2

\* variant: the count test is off by one
StopsLoop_OffByOne(rf, i) ==
    rf[i].len > MAXLINE \/ i >= MAXHEADERS \/ IsTerminator(rf[i])

\* the lines _read_headers appends to its list before it stops: the loop
\* stops at the first line that is over-long, is the terminator, or makes
\* the list longer than MAXHEADERS
StopsLoop(rf, i) ==
    rf[i].len > MAXLINE \/ i > MAXHEADERS \/ IsTerminator(rf[i])

\* _read_headers(fp); closed tells whether an exhausted stream reads as b''
\* (peer closed) or blocks.  The result is the list built, how the loop
\* ended, and the stream left behind.
ReadHeaders(rf, closed) ==
    IF \E i \in 1..Len(rf) : StopsLoop(rf, i)
    THEN LET k == CHOOSE i \in 1..Len(rf) :
                     StopsLoop(rf, i) /\ \A j \in 1..(i - 1) : ~StopsLoop(rf, j)
             r == Readline(SubSeq(rf, k, Len(rf)), MAXLINE + 1)
         IN
         IF r.line.len > MAXLINE
         THEN [status |-> "LineTooLong", headers |-> SubSeq(rf, 1, k - 1),
               rest |-> r.rest]
         ELSE IF k > MAXHEADERS
         THEN [status |-> "HTTPException", headers |-> SubSeq(rf, 1, k),
               rest |-> r.rest]
         ELSE [status |-> "ok", headers |-> SubSeq(rf, 1, k), rest |-> r.rest]
    ELSE IF ~closed
    THEN [status |-> "blocked", headers |-> rf, rest |-> <<>>]
    ELSE IF Len(rf) + 1 > MAXHEADERS
    THEN [status |-> "HTTPException", headers |-> Append(rf, EOFLine),
          rest |-> <<>>]
    ELSE [status |-> "ok", headers |-> Append(rf, EOFLine), rest |-> <<>>]

RECURSIVE JoinWords(_)
JoinWords(ws) ==
    IF ws = <<>> THEN <<>>
    ELSE IF Len(ws) = 1 THEN ws[1]
    ELSE ws[1] \o <<" ">> \o JoinWords(Tail(ws))

\* a line the message parser takes as "Name: value": a colon with no space
\* in the text before it
IsHeaderLine(line) ==
    LET t == JoinWords(line.words) IN
    /\ FirstIndex(t, ":") > 0
    /\ \A j \in 1..(FirstIndex(t, ":") - 1) : t[j] # " "

\* the pair of a header line: the text before the first colon, and the text
\* after it without its leading spaces
HeaderItem(line) ==
    LET t == JoinWords(line.words)
        v == SubSeq(t, FirstIndex(t, ":") + 1, Len(t))
        k == IF \E j \in 1..Len(v) : v[j] # " "
             THEN (CHOOSE j \in 1..Len(v) :
                      v[j] # " " /\ \A m \in 1..(j - 1) : v[m] = " ") - 1
             ELSE Len(v)
    IN [name |-> SubSeq(t, 1, FirstIndex(t, ":") - 1),
        value |-> SubSeq(v, k + 1, Len(v))]

\* the (name, value) pairs the message parser builds from the lines read:
\* header lines up to the first line that is not one, a line without a name
\* being dropped
HeaderItems(lines) ==
    LET n == IF \E i \in 1..Len(lines) : ~IsHeaderLine(lines[i])
             THEN (CHOOSE i \in 1..Len(lines) :
                      /\ ~IsHeaderLine(lines[i])
                      /\ \A j \in 1..(i - 1) : IsHeaderLine(lines[j])) - 1
             ELSE Len(lines)
        Named(kv) == kv.name # <<>>
    IN SelectSeq([i \in 1..n |-> HeaderItem(lines[i])], Named)

\* parse_headers(fp): the outcome of _read_headers with the parsed message
ParseHeaders(rf, closed) ==
    LET r == ReadHeaders(rf, closed) IN
    [status |-> r.status, items |-> HeaderItems(r.headers), rest |-> r.rest]

\* Message.get(name, default): first value stored under name, any letter case
Get(items, name, default) ==
    IF \E i \in 1..Len(items) : Lower(items[i].name) = Lower(name)
    THEN items[CHOOSE i \in 1..Len(items) :
                 /\ Lower(items[i].name) = Lower(name)
                 /\ \A j \in 1..(i - 1) : Lower(items[j].name) # Lower(name)].value
    ELSE default

(***************************************************************************)
(* Request-line parsing (BaseHTTPRequestHandler.parse_request)             *)
(***************************************************************************)
\* the try block of parse_request: does the version token parse
VersionOK(version) ==
    /\ Len(version) >= Len(HttpPrefix)
    /\ SubSeq(version, 1, Len(HttpPrefix)) = HttpPrefix
    /\ LET version_number == Split(SubSeq(version, FirstIndex(version, "/") + 1,
                                       Len(version)), ".") IN
       /\ Len(version_number) = 2
       /\ IsIntLiteral(version_number[1])
       /\ IsIntLiteral(version_number[2])

\* version_number = int(version_number[0]), int(version_number[1])
VersionNumber(version) ==
    LET version_number == Split(SubSeq(version, FirstIndex(version, "/") + 1,
                                       Len(version)), ".") IN
    <<IntOf(version_number[1]), IntOf(version_number[2])>>

\* self.protocol_version >= "HTTP/1.1"
ProtocolAtLeast11(pv) == ~StrLT(pv, HTTP11)

\* version_number >= (1, 1)
NoFault == [code |-> 0, message |-> ""]

\* send_error(code, message): the reply is only logged
send_error(code, message) == [code |-> code, message |-> message]

\* variant: the default ignores the configured protocol
KeepAliveDefault_NoProtocol(version_number, pv) ==
    TupleGE(version_number, <<1, 1>>)

\* the keep-alive default of parse_request for a parsed version
KeepAliveDefault(version_number, pv) ==
    TupleGE(version_number, <<1, 1>>) /\ ProtocolAtLeast11(pv)

\* parse_request up to the header block: the fields it leaves and whether it
\* goes on to the headers
ParseRequestLine(words, pv) ==
    LET version == words[Len(words)]
        Failed(f, cc, rv) ==
            [ok |-> FALSE, fault |-> f, close_connection |-> cc,
             request_version |-> rv, command |-> <<>>]
    IN
    IF Len(words) = 0 THEN Failed(NoFault, TRUE, default_request_version)
    ELSE IF Len(words) >= 3 /\ ~VersionOK(version)
    THEN Failed(send_error(400, "Bad request version"), TRUE,
                default_request_version)
    ELSE LET cc == IF Len(words) >= 3
                   THEN ~KeepAliveDefault(VersionNumber(version), pv)
                   ELSE TRUE
             rv == IF Len(words) >= 3 THEN version ELSE default_request_version
         IN
         IF Len(words) >= 3 /\ TupleGE(VersionNumber(version), <<2, 0>>)
         THEN Failed(send_error(505, "Invalid HTTP version"), cc,
                     default_request_version)
         ELSE IF ~(2 <= Len(words) /\ Len(words) <= 3)
         THEN Failed(send_error(400, "Bad request syntax"), cc, rv)
         ELSE IF Len(words) = 2 /\ words[1] # GET
         THEN Failed(send_error(400, "Bad HTTP/0.9 request type"), TRUE, rv)
         ELSE [ok |-> TRUE, fault |-> NoFault,
               close_connection |-> IF Len(words) = 2 THEN TRUE ELSE cc,
               request_version |-> rv, command |-> words[1]]

\* variant: the directive is compared without lower()
ConnectionDirective_CaseSensitive(items, pv, cc) ==
    LET conntype == Get(items, ConnectionName, <<>>) IN
    IF conntype = CloseValue THEN TRUE
    ELSE IF conntype = KeepAliveValue /\ ProtocolAtLeast11(pv) THEN FALSE
    ELSE cc

\* the Connection directive of parse_request: the new close_connection
ConnectionDirective(items, pv, cc) ==
    LET conntype == Get(items, ConnectionName, <<>>) IN
    IF Lower(conntype) = CloseValue THEN TRUE
    ELSE IF Lower(conntype) = KeepAliveValue /\ ProtocolAtLeast11(pv) THEN FALSE
    ELSE cc

\* the test parse_request makes before handle_expect_100
ExpectDirective(items, pv, rv) ==
    /\ Lower(Get(items, ExpectKey, <<>>)) = ContinueValue
    /\ ProtocolAtLeast11(pv)
    /\ ~StrLT(rv, HTTP11)

(***************************************************************************)
(* Response header buffer (send_response .. flush_headers).  The handler   *)
(* output is [buf, has_buf, wfile, close, exc]: _headers_buffer and        *)
(* whether the attribute exists, the bytes written to the connection,      *)
(* close_connection, and the exception raised ("" for none).               *)
(***************************************************************************)
\* BaseHTTPRequestHandler.responses[code][0]
Phrase(code) ==
    CASE code = 100 -> "Continue"
      [] code = 400 -> "Bad Request"
      [] code = 414 -> "Request-URI Too Long"
      [] code = 431 -> "Request Header Fields Too Large"
      [] code = 505 -> "HTTP Version Not Supported"
      [] OTHER -> ""

StatusLine(pv, code, message) ==
    [t |-> "status", version |-> pv, code |-> code, phrase |-> message]

HeaderLine(keyword, value) == [t |-> "header", name |-> keyword, value |-> value]

BlankLine == [t |-> "blank"]

Body(n) == [t |-> "body", len |-> n]

\* variant: the status line goes straight to the connection
send_response_only_Direct(o, rv, pv, code, message) ==
    IF rv # HTTP09
    THEN [o EXCEPT !.wfile = Append(@, StatusLine(pv, code, message))]
    ELSE o

send_response_only(o, rv, pv, code, message) ==
    IF rv # HTTP09
    THEN [o EXCEPT !.has_buf = TRUE,
                   !.buf = Append(@, StatusLine(pv, code, message))]
    ELSE o

\* variant: the Connection directive is matched without lower()
send_header_CaseSensitive(o, rv, keyword, value) ==
    LET o1 == IF rv # HTTP09
              THEN [o EXCEPT !.has_buf = TRUE,
                             !.buf = Append(@, HeaderLine(keyword, value))]
              ELSE o
    IN
    IF keyword = ConnectionName
    THEN IF value = CloseValue THEN [o1 EXCEPT !.close = TRUE]
         ELSE IF value = KeepAliveValue THEN [o1 EXCEPT !.close = FALSE]
         ELSE o1
    ELSE o1

send_header(o, rv, keyword, value) ==
    LET o1 == IF rv # HTTP09
              THEN [o EXCEPT !.has_buf = TRUE,
                             !.buf = Append(@, HeaderLine(keyword, value))]
              ELSE o
    IN
    IF Lower(keyword) = Lower(ConnectionName)
    THEN IF Lower(value) = CloseValue THEN [o1 EXCEPT !.close = TRUE]
         ELSE IF Lower(value) = KeepAliveValue THEN [o1 EXCEPT !.close = FALSE]
         ELSE o1
    ELSE o1

\* variant: the buffer is written but not emptied
flush_headers_KeepsBuffer(o) ==
    IF o.has_buf THEN [o EXCEPT !.wfile = @ \o o.buf] ELSE o

flush_headers(o) ==
    IF o.has_buf THEN [o EXCEPT !.wfile = @ \o o.buf, !.buf = <<>>] ELSE o

end_headers(o, rv) ==
    IF rv # HTTP09
    THEN IF o.has_buf THEN flush_headers([o EXCEPT !.buf = Append(@, BlankLine)])
         ELSE [o EXCEPT !.exc = "AttributeError"]
    ELSE o

\* the values of version_string() and date_time_string() are read by no
\* decision: one character stands for each
send_response(o, rv, pv, code, message) ==
    send_header(
        send_header(send_response_only(o, rv, pv, code, message),
                    rv, <<"S", "e", "r", "v", "e", "r">>, <<"s">>),
        rv, <<"D", "a", "t", "e">>, <<"d">>)

handle_expect_100(o, rv, pv) ==
    end_headers(send_response_only(o, rv, pv, 100, Phrase(100)), rv)

(***************************************************************************)
(* Application bridge (WSGIRequestHandler.run_wsgi).  The bridge state is  *)
(* [status_set, headers_set, status_sent, headers_sent, chunk_response, o] *)
(* with o the handler output.                                              *)
(***************************************************************************)
NoStatus == [set |-> FALSE, code |-> 0, msg |-> ""]

Status(code, msg) == [set |-> TRUE, code |-> code, msg |-> msg]

NoHeaderList == [set |-> FALSE, items |-> <<>>]

HeaderList(items) == [set |-> TRUE, items |-> items]

\* truth value of an optional list: None and [] are both false
Truthy(hl) == hl.set /\ hl.items # <<>>

ContentLengthName ==
    <<"C", "o", "n", "t", "e", "n", "t", "-", "L", "e", "n", "g", "t", "h">>

RECURSIVE Hex(_)
\* hex(n)[2:]
Hex(n) ==
    IF n < 16
    THEN <<(Digits \o <<"a", "b", "c", "d", "e", "f">>)[n + 1]>>
    ELSE Hex(n \div 16) \o Hex(n % 16)

ChunkEnd == [t |-> "chunkend"]

LastChunk == [t |-> "lastchunk"]

RECURSIVE SendHeaders(_, _, _)
\* for key, value in headers_sent: self.send_header(key, value)
SendHeaders(o, rv, items) ==
    IF items = <<>> THEN o
    ELSE SendHeaders(send_header(o, rv, Head(items).name, Head(items).value),
                     rv, Tail(items))

\* the body part of write(data)
WriteData(st, n) ==
    IF n > 0
    THEN [st EXCEPT !.o.wfile =
             IF st.chunk_response
             THEN @ \o <<[t |-> "chunksize", len |-> n, text |-> Hex(n)],
                         Body(n), ChunkEnd>>
             ELSE Append(@, Body(n))]
    ELSE st

\* write(data): the test that keeps the reply from being chunked
Framed(st, command) ==
    LET code == st.status_set.code
        items == st.headers_set.items
        header_keys == {Lower(items[i].name) : i \in 1..Len(items)}
    IN \/ Lower(ContentLengthName) \in header_keys
       \/ command = HEAD
       \/ (100 <= code /\ code < 200)
       \/ code \in {204, 304}

\* write(data): the end of the header block and the first body bytes, for the
\* handler output o after send_header("Connection", "close")
SendBody(st, o, n, rv) ==
    IF end_headers(o, rv).exc # ""
    THEN [st EXCEPT !.o = end_headers(o, rv)]
    ELSE WriteData([st EXCEPT !.o = end_headers(o, rv)], n)

\* variant: the header block ends without a Connection header
SendFraming_NoClose(st, o, n, rv, command) ==
    IF ~Framed(st, command)
    THEN [st EXCEPT !.o = [o EXCEPT !.exc = "AttributeError"]]
    ELSE SendBody(st, o, n, rv)

\* write(data): the branches after the reply's status line and headers went
\* to the buffer as o
SendFraming(st, o, n, rv, command) ==
    IF ~Framed(st, command)
    THEN \* self.protocal_version: no such attribute
         [st EXCEPT !.o = [o EXCEPT !.exc = "AttributeError"]]
    ELSE SendBody(st, send_header(o, rv, ConnectionName, CloseValue), n, rv)

\* run_wsgi.write(data) for data of n bytes
write(st, n, rv, pv, command) ==
    IF ~st.status_set.set \/ ~st.headers_set.set
    THEN [st EXCEPT !.o.exc = "AssertionError"]
    ELSE IF ~st.status_sent.set
    THEN SendFraming([st EXCEPT !.status_sent = st.status_set,
                                !.headers_sent = st.headers_set],
                     SendHeaders(send_response(st.o, rv, pv, st.status_set.code,
                                               st.status_set.msg),
                                 rv, st.headers_set.items),
                     n, rv, command)
    ELSE WriteData(st, n)

\* run_wsgi.start_response(status, headers, exc_info)
start_response(st, status, headers, exc_info) ==
    IF exc_info /\ Truthy(st.headers_sent)
    THEN [st EXCEPT !.o.exc = "AppError"]
    ELSE IF ~exc_info /\ Truthy(st.headers_set)
    THEN [st EXCEPT !.o.exc = "AssertionError"]
    ELSE [st EXCEPT !.status_set = status, !.headers_set = headers]

RECURSIVE WriteAll(_, _, _, _, _)
\* for data in application_iter: write(data)
WriteAll(st, body, rv, pv, command) ==
    IF body = <<>> \/ st.o.exc # "" THEN st
    ELSE WriteAll(write(st, Head(body), rv, pv, command),
                  Tail(body), rv, pv, command)

\* execute: if not headers_sent: write(b"")
WriteEmpty(st, rv, pv, command) ==
    IF st.o.exc = "" /\ ~Truthy(st.headers_sent)
    THEN write(st, 0, rv, pv, command)
    ELSE st

\* execute: if chunk_response: write(b"0\r\n\r\n")
WriteLastChunk(st) ==
    IF st.o.exc = "" /\ st.chunk_response
    THEN [st EXCEPT !.o.wfile = Append(@, LastChunk)]
    ELSE st

\* execute, from the bridge state st the application's start_response left
Iterate(st, app, rv, pv, command) ==
    IF st.o.exc # "" THEN [st |-> st, entered |-> FALSE]
    ELSE [st |-> WriteLastChunk(
                     WriteEmpty(WriteAll(st, app.body, rv, pv, command),
                                rv, pv, command)),
          entered |-> TRUE]

\* run_wsgi.execute(app) for an application [fails, status, headers, body];
\* entered tells whether the try block, and so the socket drain, was reached
execute(st, app, rv, pv, command) ==
    IF app.fails
    THEN [st |-> [st EXCEPT !.o.exc = app.exc], entered |-> FALSE]
    ELSE Iterate(start_response(st, app.status, app.headers, FALSE),
                 app, rv, pv, command)

\* run_wsgi: the closure state before execute(self.server.app)
Bridge(o) ==
    [status_set |-> NoStatus, headers_set |-> NoHeaderList,
     status_sent |-> NoStatus, headers_sent |-> NoHeaderList,
     chunk_response |-> FALSE, o |-> o]

\* variant: the except block answers with a 500 reply of its own
Recover_WritesFallback(r) ==
    [o |-> [r.st.o EXCEPT !.exc = "",
                          !.wfile = @ \o <<[t |-> "status", code |-> 500],
                                           [t |-> "blank"]>>],
     entered |-> r.entered, caught |-> r.st.o.exc]

\* run_wsgi: the exception handling for the outcome r of execute; caught is
\* the exception that reached it.  A timeout or connection error goes to
\* connection_dropped, which does nothing.  For any other Exception the
\* fallback InternalServerError() is not callable, so the second execute
\* raises before it writes and the exception is swallowed.
Recover(r) ==
    [o |-> [(IF /\ r.st.o.exc \notin {"", "TimeoutError"}
                /\ r.st.status_sent.set
                /\ r.st.chunk_response
             THEN [r.st.o EXCEPT !.close = TRUE]
             ELSE r.st.o) EXCEPT !.exc = ""],
     entered |-> r.entered, caught |-> r.st.o.exc]

\* run_wsgi(): the handler output it leaves and whether the drain was reached
\* it begins with the interim reply it writes itself for an Expect header
run_wsgi(o, items, rv, pv, command, app) ==
    Recover(execute(
        Bridge(IF Lower(Get(items, ExpectName, <<>>)) = ContinueValue
               THEN [o EXCEPT !.wfile =
                        Append(@, [t |-> "raw",
                                   text |-> " HTTP/1.1 100 Continue\r\n\r\n"])]
               ELSE o),
        app, rv, pv, command))

(***************************************************************************)
(* Inputs: what the peer may send on the connection                        *)
(***************************************************************************)
V(text, wellformed, major, minor) ==
    [text |-> text, wellformed |-> wellformed, major |-> major, minor |-> minor]

\* version tokens with the numbers HTTP/<M>.<N> stands for (RFC 2145)
VersionTable ==
    << V(HTTP09, TRUE, 0, 9),
       V(HTTP10, TRUE, 1, 0),
       V(HTTP11, TRUE, 1, 1),
       V(HttpPrefix \o <<"1", ".", "0", "5">>, TRUE, 1, 5),
       V(HttpPrefix \o <<"0", "1", ".", "1">>, TRUE, 1, 1),
       V(HttpPrefix \o <<"1", ".", "1", "0">>, TRUE, 1, 10),
       V(HttpPrefix \o <<"2", ".", "0">>, TRUE, 2, 0),
       V(HttpPrefix \o <<"2", ".", "2">>, TRUE, 2, 2),
       V(HttpPrefix \o <<"1", "0", ".", "0">>, TRUE, 10, 0),
       V(HttpPrefix \o <<"1">>, FALSE, 0, 0),
       V(HttpPrefix \o <<"1", ".", "1", ".", "1">>, FALSE, 0, 0),
       V(HttpPrefix \o <<"1", ".", "x">>, FALSE, 0, 0),
       V(HttpPrefix \o <<".", "1">>, FALSE, 0, 0),
       V(<<"F", "T", "P", "/", "1", ".", "1">>, FALSE, 0, 0) >>

VersionTokens == {VersionTable[i].text : i \in 1..Len(VersionTable)}

\* the table entry of a version token
Entry(text) == VersionTable[CHOOSE i \in 1..Len(VersionTable) :
                                VersionTable[i].text = text]

\* a line made of the given words and nothing else
TextLine(ws) == Line(Len(JoinWords(ws)) + 2, ws)

HeaderText(name, value) == TextLine(<<name \o <<":">>, value>>)

\* a header line of n bytes whose value is filler
PadLine(n) == Line(n, <<<<"X", "-", "P", "a", "d", ":">>, <<"a">>>>)

ConnectionUpper == <<"C", "O", "N", "N", "E", "C", "T", "I", "O", "N">>

KeepAliveMixed == <<"K", "e", "e", "p", "-", "A", "l", "i", "v", "e">>

RequestLines ==
    {TextLine(<<GET, Slash, v>>) : v \in VersionTokens}
    \cup {TextLine(<<<<"P", "O", "S", "T">>, Slash, HTTP11>>),
          TextLine(<<BADMETHOD, Slash, HTTP11>>),
          TextLine(<<GET, Slash>>),
          TextLine(<<BADMETHOD, Slash>>),
          TextLine(<<GET>>),
          TextLine(<<GET, Slash, <<"x">>, HTTP11>>),
          TextLine(<<GET, Slash, <<"x">>, HTTP10>>),
          Line(4, <<>>),
          Line(MAXLINE, <<GET, Slash, HTTP11>>),
          Line(MAXLINE + 1, <<GET, Slash, HTTP11>>),
          Line(70000, <<GET, Slash, HTTP11>>)}

\* header blocks; the one without a terminator ends when the peer closes
HeaderBlocks ==
    {<<CRLF>>, <<Line(1, <<>>)>>, <<PadLine(10)>>,
     <<HeaderText(ConnectionName, CloseValue), CRLF>>,
     <<HeaderText(ConnectionUpper, <<"C", "l", "o", "s", "E">>), CRLF>>,
     <<HeaderText(ConnectionName, KeepAliveValue), CRLF>>,
     <<HeaderText(ConnectionUpper, KeepAliveMixed), CRLF>>,
     <<HeaderText(ConnectionName, KeepAliveValue),
       HeaderText(ConnectionName, CloseValue), CRLF>>,
     <<HeaderText(ExpectName, ContinueValue), CRLF>>,
     <<PadLine(10), PadLine(10), CRLF>>,
     [i \in 1..(MAXHEADERS - 1) |-> PadLine(10)] \o <<CRLF>>,
     [i \in 1..MAXHEADERS |-> PadLine(10)] \o <<CRLF>>,
     <<PadLine(MAXLINE), CRLF>>,
     <<PadLine(MAXLINE + 1), CRLF>>,
     <<PadLine(70000), CRLF>>}

Messages ==
    {<<rl, CRLF>> : rl \in RequestLines}
    \cup {<<rl>> \o b :
             rl \in {TextLine(<<GET, Slash, HTTP11>>),
                     TextLine(<<GET, Slash, HTTP10>>),
                     TextLine(<<GET, Slash>>),
                     TextLine(<<BADMETHOD, Slash>>)},
             b \in HeaderBlocks}
    \cup {<<TextLine(<<GET, Slash, v>>),
            HeaderText(ExpectKey, ContinueValue), CRLF>> : v \in VersionTokens}

\* behaviours of the application behind the server
App(fails, status, headers, body) ==
    [fails |-> fails, status |-> status, headers |-> headers, body |-> body,
     exc |-> "AppError"]

Item(name, value) == [name |-> name, value |-> value]

Apps ==
    {App(FALSE, Status(200, "OK"),
         HeaderList(<<Item(ContentLengthName, <<"5">>)>>), <<5>>),
     App(FALSE, Status(200, "OK"),
         HeaderList(<<Item(<<"C", "o", "n", "t", "e", "n", "t", "-", "T", "y", "p", "e">>,
                           <<"t">>)>>), <<5>>),
     App(TRUE, NoStatus, NoHeaderList, <<>>),
     \* its read of wsgi.input times out before it calls start_response
     [App(TRUE, NoStatus, NoHeaderList, <<>>) EXCEPT !.exc = "TimeoutError"]}

\* protocol_version as the repository configures it
ProtocolVersions == {HTTP10, HTTP11}

\* the output of a handler that has sent nothing yet
NoOutput == [buf |-> <<>>, has_buf |-> FALSE, wfile |-> <<>>, close |-> TRUE,
             exc |-> ""]

\* a call on the handler or the bridge: its name, its position in the
\* sequence of calls, and its arguments
Call(op, seq, args) == [op |-> op, seq |-> seq, args |-> args]

NoCall == Call("", 0, <<>>)

\* execute before it is called: nothing read, nothing pending on the socket
NoDrain == [pc |-> "", ran |-> FALSE, total_size |-> 0, total_reads |-> 0,
            pending |-> 0, peer_closed |-> FALSE, has_close |-> FALSE,
            closes |-> 0]

\* a server that has not been constructed
NoServer == [pc |-> "", shutdown_request |-> FALSE, is_shut_down |-> FALSE,
             listening |-> FALSE, backlog |-> 0, connects |-> 0,
             conns |-> <<>>, cls |-> "", multithread |-> FALSE,
             multiprocess |-> FALSE, own |-> <<>>,
             handler_protocol |-> <<>>]

(***************************************************************************)
(* State                                                                   *)
(***************************************************************************)
VARIABLES
    protocol_version,   \* handler class attribute
    rfile,              \* lines sent by the peer and not yet read
    peer_closed,        \* the peer has closed its side
    sent,               \* messages the peer has sent
    wfile,              \* what was written to the connection
    headers_buffer,     \* _headers_buffer
    has_headers_buffer, \* hasattr(self, '_headers_buffer')
    close_connection,
    raw_requestline,
    request_version,
    command,
    headers,            \* self.headers: [set, items]
    fault,              \* send_error call of the current cycle
    cycles,             \* calls of handle_one_request so far
    wmark,              \* length of wfile when the current cycle began
    pc,                 \* position of the handler
    bridge,             \* closure state of a run_wsgi call driven step by step
    call,               \* the last call made on the handler or the bridge
    drain,              \* execute(app) and its drain of the socket, step by step
    server,             \* the listening server and the connections it accepted
    hdrs                \* _headers of a response header collection

vars == <<protocol_version, rfile, peer_closed, sent, wfile, headers_buffer,
          has_headers_buffer, close_connection, raw_requestline,
          request_version, command, headers, fault, cycles, wmark, pc,
          bridge, call, drain, server, hdrs>>

Init ==
    /\ protocol_version \in ProtocolVersions
    /\ rfile = <<>>
    /\ peer_closed = FALSE
    /\ sent = 0
    /\ wfile = <<>>
    /\ headers_buffer = <<>>
    /\ has_headers_buffer = FALSE
    /\ close_connection = FALSE
    /\ raw_requestline = EOFLine
    /\ request_version = <<>>
    /\ command = <<>>
    /\ headers = NoHeaderList
    /\ fault = NoFault
    /\ cycles = 0
    /\ wmark = 0
    /\ pc = "handle"
    /\ bridge = Bridge(NoOutput)
    /\ call = NoCall
    /\ drain = NoDrain
    /\ server = NoServer
    /\ hdrs = <<>>

\* the handler output as the buffer operators take it
Out == [buf |-> headers_buffer, has_buf |-> has_headers_buffer,
        wfile |-> wfile, close |-> close_connection, exc |-> ""]

\* variant: the loop goes on whatever the flag
NextPc_Loops(cc) == "read"

\* while not self.close_connection: self.handle_one_request()
NextPc(cc) == IF cc THEN "closed" ELSE "read"

(***************************************************************************)
(* The peer                                                                *)
(***************************************************************************)
ClientSend ==
    /\ pc = "read"
    /\ rfile = <<>>
    /\ ~peer_closed
    /\ sent < MaxRequests
    /\ \E m \in Messages : rfile' = m
    /\ sent' = sent + 1
    /\ UNCHANGED <<protocol_version, peer_closed, wfile, headers_buffer,
                   has_headers_buffer, close_connection, raw_requestline,
                   request_version, command, headers, fault, cycles, wmark, pc>>
    /\ UNCHANGED <<bridge, call, drain, server, hdrs>>

ClientClose ==
    /\ pc \in {"read", "headers"}
    /\ rfile = <<>>
    /\ ~peer_closed
    /\ peer_closed' = TRUE
    /\ UNCHANGED <<protocol_version, rfile, sent, wfile, headers_buffer,
                   has_headers_buffer, close_connection, raw_requestline,
                   request_version, command, headers, fault, cycles, wmark, pc>>
    /\ UNCHANGED <<bridge, call, drain, server, hdrs>>

(***************************************************************************)
(* The handler                                                             *)
(***************************************************************************)
\* BaseHTTPRequestHandler.handle, up to its first handle_one_request
Handle ==
    /\ pc = "handle"
    /\ close_connection' = TRUE
    /\ pc' = "read"
    /\ UNCHANGED <<protocol_version, rfile, peer_closed, sent, wfile,
                   headers_buffer, has_headers_buffer, raw_requestline,
                   request_version, command, headers, fault, cycles, wmark>>
    /\ UNCHANGED <<bridge, call, drain, server, hdrs>>

\* handle_one_request: the read of the request line
ReadRequestLine ==
    /\ pc = "read"
    /\ rfile # <<>> \/ peer_closed
    /\ LET r == Readline(rfile, RequestLineLimit) IN
       /\ raw_requestline' = r.line
       /\ rfile' = r.rest
       /\ cycles' = cycles + 1
       /\ wmark' = Len(wfile)
       /\ IF r.line.len > MAXLINE
          THEN /\ request_version' = <<>>
               /\ fault' = send_error(414, Phrase(414))
               /\ close_connection' = close_connection
               /\ pc' = NextPc(close_connection)
          ELSE IF r.line.len = 0
          THEN /\ close_connection' = TRUE
               /\ fault' = NoFault
               /\ pc' = "closed"
               /\ UNCHANGED request_version
          ELSE /\ fault' = NoFault
               /\ pc' = "parse"
               /\ UNCHANGED <<request_version, close_connection>>
    /\ UNCHANGED <<protocol_version, peer_closed, sent, wfile, headers_buffer,
                   has_headers_buffer, command, headers>>
    /\ UNCHANGED <<bridge, call, drain, server, hdrs>>

\* parse_request: the request line
ParseRequest ==
    /\ pc = "parse"
    /\ LET r == ParseRequestLine(raw_requestline.words, protocol_version) IN
       /\ command' = r.command
       /\ request_version' = r.request_version
       /\ close_connection' = r.close_connection
       /\ fault' = r.fault
       /\ pc' = IF r.ok THEN "headers" ELSE NextPc(r.close_connection)
    /\ UNCHANGED <<protocol_version, rfile, peer_closed, sent, wfile,
                   headers_buffer, has_headers_buffer, raw_requestline,
                   headers, cycles, wmark>>
    /\ UNCHANGED <<bridge, call, drain, server, hdrs>>

\* parse_request: the header block
ReadRequestHeaders ==
    /\ pc = "headers"
    /\ LET r == ParseHeaders(rfile, peer_closed) IN
       /\ r.status # "blocked"
       /\ rfile' = r.rest
       /\ IF r.status = "ok"
          THEN /\ headers' = HeaderList(r.items)
               /\ fault' = fault
               /\ pc' = "examine"
          ELSE /\ headers' = headers
               /\ fault' = send_error(431, IF r.status = "LineTooLong"
                                           THEN "Line too long"
                                           ELSE "Too many headers")
               /\ pc' = NextPc(close_connection)
    /\ UNCHANGED <<protocol_version, peer_closed, sent, wfile, headers_buffer,
                   has_headers_buffer, close_connection, raw_requestline,
                   request_version, command, cycles, wmark>>
    /\ UNCHANGED <<bridge, call, drain, server, hdrs>>

\* parse_request: the Connection and 100-continue directives
ExamineHeaders ==
    /\ pc = "examine"
    /\ LET cc == ConnectionDirective(headers.items, protocol_version,
                                     close_connection)
           o == IF ExpectDirective(headers.items, protocol_version,
                                   request_version)
                THEN handle_expect_100([Out EXCEPT !.close = cc],
                                       request_version, protocol_version)
                ELSE [Out EXCEPT !.close = cc]
       IN
       /\ close_connection' = o.close
       /\ headers_buffer' = o.buf
       /\ has_headers_buffer' = o.has_buf
       /\ wfile' = o.wfile
    /\ pc' = "dispatch"
    /\ UNCHANGED <<protocol_version, rfile, peer_closed, sent,
                   raw_requestline, request_version, command, headers, fault,
                   cycles, wmark>>
    /\ UNCHANGED <<bridge, call, drain, server, hdrs>>

\* variant: only the methods of a file server are known
GetAttr_KnownOnly(name) ==
    IF name \in {<<"d", "o", "_">> \o GET, <<"d", "o", "_">> \o HEAD}
    THEN "run_wsgi"
    ELSE "AttributeError"

\* WSGIRequestHandler.__getattr__(name) for a name no class defines
GetAttr(name) ==
    IF Len(name) >= 3 /\ SubSeq(name, 1, 3) = <<"d", "o", "_">>
    THEN "run_wsgi"
    ELSE "AttributeError"

\* handle_one_request: hasattr(self, 'do_' + command) and the call of the
\* method, which is run_wsgi; drained tells whether the drain of run_wsgi
\* read the stream to its end.  After a timeout of the application's read
\* the stream object refuses every later read.
Dispatch ==
    /\ pc = "dispatch"
    /\ IF GetAttr(<<"d", "o", "_">> \o command) # "run_wsgi"
       THEN /\ fault' = send_error(501, "Unsupported method")
            /\ pc' = NextPc(close_connection)
            /\ UNCHANGED <<close_connection, headers_buffer,
                           has_headers_buffer, wfile, rfile, peer_closed,
                           call>>
       ELSE /\ \E app \in Apps, drained \in BOOLEAN :
                  \E r \in {run_wsgi(Out, headers.items, request_version,
                                     protocol_version, command, app)} :
                     /\ close_connection' = r.o.close
                     /\ headers_buffer' = r.o.buf
                     /\ has_headers_buffer' = r.o.has_buf
                     /\ wfile' = r.o.wfile
                     /\ IF r.entered /\ drained
                        THEN rfile' = <<>> /\ peer_closed' = TRUE
                        ELSE UNCHANGED <<rfile, peer_closed>>
                     /\ pc' = IF r.caught = "TimeoutError" /\ ~r.o.close
                              THEN "stale"
                              ELSE NextPc(r.o.close)
                     /\ call' = Call("run_wsgi", cycles,
                                     <<command, r.caught>>)
            /\ fault' = fault
    /\ UNCHANGED <<protocol_version, sent, raw_requestline, request_version,
                   command, headers, cycles, wmark>>
    /\ UNCHANGED <<bridge, drain, server, hdrs>>

\* handle_one_request: the read of the request line or of the header block
\* times out; the TimeoutError is caught, logged, and closes the connection
Timeout ==
    /\ pc \in {"read", "headers"}
    /\ ~peer_closed
    /\ IF pc = "read" THEN rfile = <<>>
       ELSE ParseHeaders(rfile, peer_closed).status = "blocked"
    /\ rfile' = <<>>
    /\ cycles' = IF pc = "read" THEN cycles + 1 ELSE cycles
    /\ wmark' = IF pc = "read" THEN Len(wfile) ELSE wmark
    /\ fault' = IF pc = "read" THEN NoFault ELSE fault
    /\ close_connection' = TRUE
    /\ pc' = "closed"
    /\ call' = Call("log_error", cycles', <<"Request timed out">>)
    /\ UNCHANGED <<protocol_version, peer_closed, sent, wfile, headers_buffer,
                   has_headers_buffer, raw_requestline, request_version,
                   command, headers>>
    /\ UNCHANGED <<bridge, drain, server, hdrs>>

\* handle_one_request called again after a read of the stream has timed out
\* inside run_wsgi: readline raises OSError ("cannot read from timed out
\* object"), which no except clause of the handler takes
ReadAfterTimeout ==
    /\ pc = "stale"
    /\ cycles' = cycles + 1
    /\ pc' = "raised"
    /\ call' = Call("OSError", cycles', <<>>)
    /\ UNCHANGED <<protocol_version, rfile, peer_closed, sent, wfile,
                   headers_buffer, has_headers_buffer, close_connection,
                   raw_requestline, request_version, command, headers, fault,
                   wmark>>
    /\ UNCHANGED <<bridge, drain, server, hdrs>>

Next ==
    \/ ClientSend
    \/ ClientClose
    \/ Handle
    \/ ReadRequestLine
    \/ ParseRequest
    \/ ReadRequestHeaders
    \/ ExamineHeaders
    \/ Dispatch
    \/ Timeout
    \/ ReadAfterTimeout

Spec == Init /\ [][Next]_vars

(***************************************************************************)
(* The response methods of the handler called one after another, as the    *)
(* code of a do_<command> method may call them                              *)
(***************************************************************************)
\* header fields passed to send_header
HeaderArgs ==
    {<<ConnectionName, CloseValue>>, <<ConnectionUpper, <<"C", "l", "o", "s", "E">>>>,
     <<ConnectionName, KeepAliveValue>>, <<ConnectionUpper, KeepAliveMixed>>,
     <<ConnectionName, <<"5">>>>, <<ContentLengthName, <<"5">>>>,
     <<ContentLengthName, CloseValue>>}

HandlerInit ==
    /\ protocol_version \in ProtocolVersions
    /\ request_version \in {HTTP09, HTTP10, HTTP11}
    /\ close_connection \in BOOLEAN
    /\ rfile = <<>>
    /\ peer_closed = FALSE
    /\ sent = 0
    /\ wfile = <<>>
    /\ headers_buffer = <<>>
    /\ has_headers_buffer = FALSE
    /\ raw_requestline = EOFLine
    /\ command = GET
    /\ headers = NoHeaderList
    /\ fault = NoFault
    /\ cycles = 0
    /\ wmark = 0
    /\ pc = "api"
    /\ bridge = Bridge(NoOutput)
    /\ call = NoCall
    /\ drain = NoDrain
    /\ server = NoServer
    /\ hdrs = <<>>

\* the handler after a call that left the output o
Returned(o, op, args) ==
    /\ headers_buffer' = o.buf
    /\ has_headers_buffer' = o.has_buf
    /\ wfile' = o.wfile
    /\ close_connection' = o.close
    /\ pc' = IF o.exc = "" THEN "api" ELSE "raised"
    /\ call' = Call(op, call.seq + 1, args)
    /\ UNCHANGED <<protocol_version, rfile, peer_closed, sent,
                   raw_requestline, request_version, command, headers, fault,
                   cycles, wmark, bridge, drain, server, hdrs>>

CallSendResponse ==
    /\ pc = "api"
    /\ call.seq < MaxCalls
    /\ Returned(send_response(Out, request_version, protocol_version,
                              200, "OK"),
                "send_response", <<200>>)

CallSendResponseOnly ==
    /\ pc = "api"
    /\ call.seq < MaxCalls
    /\ Returned(send_response_only(Out, request_version, protocol_version,
                                   100, Phrase(100)),
                "send_response_only", <<100>>)

CallSendHeader ==
    /\ pc = "api"
    /\ call.seq < MaxCalls
    /\ \E kv \in HeaderArgs :
          Returned(send_header(Out, request_version, kv[1], kv[2]),
                   "send_header", kv)

CallEndHeaders ==
    /\ pc = "api"
    /\ call.seq < MaxCalls
    /\ Returned(end_headers(Out, request_version), "end_headers", <<>>)

CallFlushHeaders ==
    /\ pc = "api"
    /\ call.seq < MaxCalls
    /\ Returned(flush_headers(Out), "flush_headers", <<>>)

HandlerNext ==
    \/ CallSendResponse
    \/ CallSendResponseOnly
    \/ CallSendHeader
    \/ CallEndHeaders
    \/ CallFlushHeaders

HandlerSpec == HandlerInit /\ [][HandlerNext]_vars

(***************************************************************************)
(* One run_wsgi call step by step: the application calls start_response    *)
(* and write (or yields data, which execute passes to write), may catch    *)
(* what they raise, may raise itself, and in the end returns               *)
(***************************************************************************)
BridgeInit ==
    /\ protocol_version \in ProtocolVersions
    /\ request_version \in {HTTP09, HTTP11}
    /\ command \in {GET, HEAD}
    /\ close_connection = TRUE
    /\ rfile = <<>>
    /\ peer_closed = FALSE
    /\ sent = 0
    /\ wfile = <<>>
    /\ headers_buffer = <<>>
    /\ has_headers_buffer = FALSE
    /\ raw_requestline = EOFLine
    /\ headers = NoHeaderList
    /\ fault = NoFault
    /\ cycles = 0
    /\ wmark = 0
    /\ pc = "app"
    /\ bridge = Bridge(NoOutput)
    /\ call = NoCall
    /\ drain = NoDrain
    /\ server = NoServer
    /\ hdrs = <<>>

\* the bridge after a call that left the closure state st; an exception
\* goes to the application first
Left(st, op, seq, args) ==
    /\ bridge' = st
    /\ pc' = IF st.o.exc = "" THEN "app" ELSE "failed"
    /\ call' = Call(op, seq, args)
    /\ UNCHANGED <<protocol_version, rfile, peer_closed, sent, wfile,
                   headers_buffer, has_headers_buffer, close_connection,
                   raw_requestline, request_version, command, headers, fault,
                   cycles, wmark>>
    /\ UNCHANGED <<drain, server, hdrs>>

AppStartResponse ==
    /\ pc = "app"
    /\ call.seq < MaxAppCalls
    /\ \E status \in {Status(200, "OK"), Status(204, "NO CONTENT")},
          hl \in {HeaderList(<<>>),
                  HeaderList(<<Item(ContentLengthName, <<"5">>)>>),
                  HeaderList(<<Item(<<"C", "o", "n", "t", "e", "n", "t", "-", "T", "y", "p", "e">>,
                                    <<"t">>)>>)},
          exc_info \in BOOLEAN :
          Left(start_response(bridge, status, hl, exc_info),
               "start_response", call.seq + 1, <<status, hl, exc_info>>)

\* write(data), called by the application or by execute for yielded data
AppWrite ==
    /\ pc = "app"
    /\ call.seq < MaxAppCalls
    /\ \E n \in {0, 5, 26} :
          Left(write(bridge, n, request_version, protocol_version, command),
               "write", call.seq + 1, <<n>>)

\* the application catches what start_response or write raised
AppCatch ==
    /\ pc = "failed"
    /\ call.op \in {"start_response", "write"}
    /\ Left([bridge EXCEPT !.o.exc = ""], "catch", call.seq, <<>>)

AppRaise ==
    /\ pc = "app"
    /\ call.seq < MaxAppCalls
    /\ Left([bridge EXCEPT !.o.exc = "AppError"], "raise", call.seq + 1, <<>>)

\* the iteration ends: the rest of the try block of execute
AppReturn ==
    /\ pc = "app"
    /\ \E st \in {WriteLastChunk(WriteEmpty(bridge, request_version,
                                           protocol_version, command))} :
          /\ bridge' = st
          /\ pc' = IF st.o.exc = "" THEN "done" ELSE "failed"
          /\ call' = Call("return", call.seq, <<>>)
    /\ UNCHANGED <<protocol_version, rfile, peer_closed, sent, wfile,
                   headers_buffer, has_headers_buffer, close_connection,
                   raw_requestline, request_version, command, headers, fault,
                   cycles, wmark>>
    /\ UNCHANGED <<drain, server, hdrs>>

\* the exception leaves execute: the except block of run_wsgi
BridgeRecover ==
    /\ pc = "failed"
    /\ bridge' = [bridge EXCEPT
                     !.o = Recover([st |-> bridge, entered |-> TRUE]).o,
                     !.status_set = IF bridge.status_sent.set THEN @
                                    ELSE NoStatus,
                     !.headers_set = IF bridge.status_sent.set THEN @
                                     ELSE NoHeaderList]
    /\ pc' = "done"
    /\ call' = Call("except", call.seq, <<>>)
    /\ UNCHANGED <<protocol_version, rfile, peer_closed, sent, wfile,
                   headers_buffer, has_headers_buffer, close_connection,
                   raw_requestline, request_version, command, headers, fault,
                   cycles, wmark>>
    /\ UNCHANGED <<drain, server, hdrs>>

BridgeNext ==
    \/ AppStartResponse
    \/ AppWrite
    \/ AppCatch
    \/ AppRaise
    \/ AppReturn
    \/ BridgeRecover

BridgeSpec == BridgeInit /\ [][BridgeNext]_vars

(***************************************************************************)
(* execute(app) step by step: the call of the application, the iteration   *)
(* of its result, and the drain of the socket in the finally block.  The   *)
(* peer may send further bytes and may close its side at any time.         *)
(***************************************************************************)
\* the handler variables, which these steps leave alone
HandlerVars == <<protocol_version, rfile, peer_closed, sent, wfile,
                 headers_buffer, has_headers_buffer, close_connection,
                 raw_requestline, request_version, command, headers, fault,
                 cycles, wmark, pc, bridge, call>>

\* a handler that is not looked at
Quiet(at) ==
    /\ protocol_version = HTTP10
    /\ rfile = <<>>
    /\ peer_closed = FALSE
    /\ sent = 0
    /\ wfile = <<>>
    /\ headers_buffer = <<>>
    /\ has_headers_buffer = FALSE
    /\ close_connection = TRUE
    /\ raw_requestline = EOFLine
    /\ request_version = <<>>
    /\ command = <<>>
    /\ headers = NoHeaderList
    /\ fault = NoFault
    /\ cycles = 0
    /\ wmark = 0
    /\ pc = at
    /\ bridge = Bridge(NoOutput)
    /\ call = NoCall

DrainInit ==
    /\ Quiet("execute")
    /\ hdrs = <<>>
    /\ drain = [NoDrain EXCEPT !.pc = "call"]
    /\ server = NoServer

\* application_iter = app(environ, start_response): outside the try block;
\* what the application returns has a close method or has none
DrainAppCall ==
    /\ drain.pc = "call"
    /\ \E raised \in BOOLEAN, has_close \in BOOLEAN :
          /\ raised => ~has_close
          /\ drain' = [drain EXCEPT
                          !.pc = IF raised THEN "except" ELSE "iterate",
                          !.has_close = has_close]
    /\ UNCHANGED HandlerVars
    /\ UNCHANGED <<server, hdrs>>

\* the try block: the iteration ends or raises, and the finally block begins
DrainIterate ==
    /\ drain.pc = "iterate"
    /\ drain' = [drain EXCEPT !.pc = "select", !.ran = TRUE]
    /\ UNCHANGED HandlerVars
    /\ UNCHANGED <<server, hdrs>>

\* while selector.select(timeout=0.01): the socket is readable when bytes
\* are pending or the peer has closed its side
DrainSelect ==
    /\ drain.pc = "select"
    /\ drain' = [drain EXCEPT !.pc = IF drain.pending > 0 \/ drain.peer_closed
                                     THEN "read" ELSE "close"]
    /\ UNCHANGED HandlerVars
    /\ UNCHANGED <<server, hdrs>>

\* data = self.rfile.read(10_000_000) and the counting after it; the read
\* blocks until that many bytes have come or the peer has closed its side,
\* and returns that many units or what the ended stream still held
DrainRead ==
    /\ drain.pc = "read"
    /\ drain.pending >= DRAIN_READ_SIZE \/ drain.peer_closed
    /\ \E len \in {IF drain.pending >= DRAIN_READ_SIZE
                     THEN DRAIN_READ_SIZE ELSE drain.pending} :
          drain' = [drain EXCEPT
                       !.pending = @ - len,
                       !.total_size = @ + len,
                       !.total_reads = @ + 1,
                       !.pc =
                           IF \/ len = 0
                              \/ drain.total_size + len >= DRAIN_MAX_SIZE
                              \/ drain.total_reads + 1 >= DRAIN_MAX_READS
                           THEN "close" ELSE "select"]
    /\ UNCHANGED HandlerVars
    /\ UNCHANGED <<server, hdrs>>

\* the end of the finally block: selector.close(), then
\* if hasattr(application_iter, "close"): application_iter.close()
DrainClose ==
    /\ drain.pc = "close"
    /\ drain' = [drain EXCEPT !.pc = "done",
                              !.closes = IF drain.has_close THEN @ + 1 ELSE @]
    /\ UNCHANGED HandlerVars
    /\ UNCHANGED <<server, hdrs>>

\* the exception of the application call reaches run_wsgi; its second
\* execute raises at the call as well (the fallback is not callable)
DrainExcept ==
    /\ drain.pc = "except"
    /\ drain' = [drain EXCEPT !.pc = "done"]
    /\ UNCHANGED HandlerVars
    /\ UNCHANGED <<server, hdrs>>

\* unread bytes on the socket (units of 1000 bytes): nothing, the rest of a
\* request body, one full read, one full read and a rest
DrainPeerSend ==
    /\ drain.pc \in {"call", "iterate", "select", "read"}
    /\ ~drain.peer_closed
    /\ \E n \in {1, DRAIN_READ_SIZE} :
          /\ drain.pending + n
                \in {0, 1, DRAIN_READ_SIZE, DRAIN_READ_SIZE + 1}
          /\ drain' = [drain EXCEPT !.pending = @ + n]
    /\ UNCHANGED HandlerVars
    /\ UNCHANGED <<server, hdrs>>

DrainPeerClose ==
    /\ drain.pc \in {"call", "iterate", "select", "read"}
    /\ ~drain.peer_closed
    /\ drain' = [drain EXCEPT !.peer_closed = TRUE]
    /\ UNCHANGED HandlerVars
    /\ UNCHANGED <<server, hdrs>>

DrainNext ==
    \/ DrainAppCall
    \/ DrainIterate
    \/ DrainSelect
    \/ DrainRead
    \/ DrainClose
    \/ DrainExcept
    \/ DrainPeerSend
    \/ DrainPeerClose

DrainSpec == DrainInit /\ [][DrainNext]_vars

\* the handler thread keeps running; the peer is under no obligation
FairDrainSpec ==
    /\ DrainSpec
    /\ WF_vars(DrainAppCall)
    /\ WF_vars(DrainIterate)
    /\ WF_vars(DrainSelect)
    /\ WF_vars(DrainRead)
    /\ WF_vars(DrainClose)
    /\ WF_vars(DrainExcept)

(***************************************************************************)
(* The listening server (mysocketserver.TCPServer as BaseWSGIServer uses   *)
(* it): serve_forever and the handling of one accepted connection.  A      *)
(* connection is [state, wr, closed, reported]: how far its handling got,  *)
(* the result of shutdown(SHUT_WR), whether close() was called, whether    *)
(* handle_error reported it.                                               *)
(***************************************************************************)
\* the connection being handled
Cur == server.conns[Len(server.conns)]

SetCur(c) == [server.conns EXCEPT ![Len(server.conns)] = c]

\* variant: the next connection is accepted while the handled one is open
AfterFinish_Detached(outcome) == "loop"

\* process_request / _handle_request_noblock: shutdown_request(request)
\* follows finish_request on every outcome
AfterFinish(outcome) == "shutdown"

\* variant: an OSError of shutdown(SHUT_WR) leaves shutdown_request
AfterShutdownWrite_Raises(err) == IF err THEN "loop" ELSE "close"

\* shutdown_request: except OSError: pass, then close_request(request)
AfterShutdownWrite(err) == "close"

\* variant: every exception of the handler is raised again
AfterClose_Propagates(state) ==
    IF state \in {"Exception", "BaseException"} THEN "finally" ELSE "loop"

\* _handle_request_noblock after shutdown_request: the bare except clause
\* raises again, every other branch returns to serve_forever
AfterClose(state) == IF state = "BaseException" THEN "finally" ELSE "loop"

\* the attributes a lookup on an instance of the server class finds in the
\* class and its bases
ServerAttrs(cls) ==
    CASE cls = "BaseWSGIServer" ->
           [multithread |-> FALSE, multiprocess |-> FALSE,
            multi_thread |-> FALSE, multi_process |-> FALSE,
            has |-> {"multithread", "multiprocess"}]
      [] cls = "ThreadedWSGIServer" ->
           [multithread |-> FALSE, multiprocess |-> FALSE,
            multi_thread |-> TRUE, multi_process |-> FALSE,
            has |-> {"multithread", "multiprocess", "multi_thread",
                     "daemon_threads"}]
      [] cls = "ForkingWSGIServer" ->
           [multithread |-> FALSE, multiprocess |-> FALSE,
            multi_thread |-> FALSE, multi_process |-> TRUE,
            has |-> {"multithread", "multiprocess", "multi_process"}]

\* BaseWSGIServer.__init__: the protocol_version of the handler class after
\* construction; own is the protocol_version the handler class defines
\* itself (<<>> when it defines none and inherits HTTP/1.0)
HandlerProtocol(cls, own) ==
    IF own = <<>>
    THEN IF ServerAttrs(cls).multithread \/ ServerAttrs(cls).multiprocess
         THEN HTTP11
         ELSE HTTP10
    ELSE own

ServerInit ==
    /\ Quiet("server")
    /\ hdrs = <<>>
    /\ drain = NoDrain
    /\ \E cls \in {"BaseWSGIServer", "ThreadedWSGIServer",
                    "ForkingWSGIServer"},
          own \in {<<>>} \cup ProtocolVersions :
          server = [NoServer EXCEPT
                       !.pc = "start",
                       !.listening = TRUE,
                       !.cls = cls,
                       !.multithread = ServerAttrs(cls).multithread,
                       !.multiprocess = ServerAttrs(cls).multiprocess,
                       !.own = own,
                       !.handler_protocol = HandlerProtocol(cls, own)]

\* serve_forever: self.__is_shut_down.clear()
ServeForever ==
    /\ server.pc = "start"
    /\ server' = [server EXCEPT !.pc = "loop", !.is_shut_down = FALSE]
    /\ UNCHANGED HandlerVars
    /\ UNCHANGED <<drain, hdrs>>

\* serve_forever: one turn of the loop up to the call of
\* _handle_request_noblock
Select ==
    /\ server.pc = "loop"
    /\ server' = [server EXCEPT
                     !.pc = IF server.shutdown_request THEN "finally"
                            ELSE IF server.backlog > 0 THEN "accept"
                            ELSE "loop"]
    /\ UNCHANGED HandlerVars
    /\ UNCHANGED <<drain, hdrs>>

\* _handle_request_noblock: get_request(), which may raise OSError
GetRequest ==
    /\ server.pc = "accept"
    /\ \E ok \in BOOLEAN :
          server' = [server EXCEPT
                        !.backlog = @ - 1,
                        !.conns =
                            IF ok
                            THEN Append(@, [state |-> "accepted",
                                            wr |-> "open",
                                            closed |-> FALSE,
                                            reported |-> FALSE])
                            ELSE @,
                        !.pc = IF ok THEN "verify" ELSE "loop"]
    /\ UNCHANGED HandlerVars
    /\ UNCHANGED <<drain, hdrs>>

\* _handle_request_noblock: verify_request, a hook a server may override
VerifyRequest ==
    /\ server.pc = "verify"
    /\ \E v \in BOOLEAN :
          server' = [server EXCEPT
                        !.conns = SetCur([Cur EXCEPT
                                     !.state = IF v THEN "handling"
                                               ELSE "refused"]),
                        !.pc = IF v THEN "finish" ELSE "shutdown"]
    /\ UNCHANGED HandlerVars
    /\ UNCHANGED <<drain, hdrs>>

\* process_request: finish_request runs the handler; an Exception is
\* reported by handle_error.  RequestHandlerClass(request, client_address,
\* self) returns, raises an Exception, or raises a BaseException that is no
\* Exception (KeyboardInterrupt, SystemExit).  No server class overrides
\* process_request: ThreadingMixIn and ForkingMixIn define none.
FinishRequest ==
    /\ server.pc = "finish"
    /\ \E outcome \in {"returned", "Exception", "BaseException"} :
          server' = [server EXCEPT
                        !.conns = SetCur([Cur EXCEPT
                                     !.state = outcome,
                                     !.reported = (outcome = "Exception")]),
                        !.pc = AfterFinish(outcome)]
    /\ UNCHANGED HandlerVars
    /\ UNCHANGED <<drain, hdrs>>

\* shutdown_request: request.shutdown(socket.SHUT_WR), which may raise OSError
ShutdownWrite ==
    /\ server.pc = "shutdown"
    /\ \E err \in BOOLEAN :
          server' = [server EXCEPT
                        !.conns = SetCur([Cur EXCEPT
                                     !.wr = IF err THEN "failed" ELSE "shut"]),
                        !.pc = AfterShutdownWrite(err)]
    /\ UNCHANGED HandlerVars
    /\ UNCHANGED <<drain, hdrs>>

\* close_request: request.close()
CloseRequest ==
    /\ server.pc = "close"
    /\ server' = [server EXCEPT
                     !.conns = SetCur([Cur EXCEPT !.closed = TRUE]),
                     !.pc = AfterClose(Cur.state)]
    /\ UNCHANGED HandlerVars
    /\ UNCHANGED <<drain, hdrs>>

\* serve_forever: the finally block.  Its second statement is the bare
\* expression self.__is_shut_down, which changes nothing.
Finally ==
    /\ server.pc = "finally"
    /\ server' = [server EXCEPT !.pc = "left", !.shutdown_request = FALSE]
    /\ UNCHANGED HandlerVars
    /\ UNCHANGED <<drain, hdrs>>

\* a peer connects to the listening socket
ClientConnect ==
    /\ server.pc # "left"
    /\ server.listening
    /\ server.connects < MaxConnections
    /\ server' = [server EXCEPT !.backlog = @ + 1, !.connects = @ + 1]
    /\ UNCHANGED HandlerVars
    /\ UNCHANGED <<drain, hdrs>>

ServerNext ==
    \/ ServeForever
    \/ Select
    \/ GetRequest
    \/ VerifyRequest
    \/ FinishRequest
    \/ ShutdownWrite
    \/ CloseRequest
    \/ Finally
    \/ ClientConnect

ServerSpec == ServerInit /\ [][ServerNext]_vars

\* the server thread keeps running; whether a handler ever ends is up to the
\* handler and its peer
FairServerSpec ==
    /\ ServerSpec
    /\ WF_vars(ServeForever)
    /\ WF_vars(Select)
    /\ WF_vars(GetRequest)
    /\ WF_vars(VerifyRequest)
    /\ WF_vars(ShutdownWrite)
    /\ WF_vars(CloseRequest)
    /\ WF_vars(Finally)

(***************************************************************************)
(* Properties                                                              *)
(***************************************************************************)
Words == raw_requestline.words

\* the request line has three tokens and the last is HTTP/<M>.<N>
ThreeTokenWellFormed ==
    /\ Len(Words) = 3
    /\ Words[3] \in VersionTokens
    /\ Entry(Words[3]).wellformed

\* (M, N) of a table entry is at least (major, minor)
NumGE(e, major, minor) ==
    e.major > major \/ (e.major = major /\ e.minor >= minor)

\* a status line with the code and its reason phrase among w[m+1..]
StatusIn(w, m, code) ==
    \E i \in (m + 1)..Len(w) :
        /\ w[i].t = "status"
        /\ w[i].code = code
        /\ w[i].phrase = Phrase(code)

\* ... written to the connection in the current cycle
StatusWritten(code) == StatusIn(wfile, wmark, code)

\* the Connection value the request carries, lower-cased
ConnHeader == Lower(Get(headers.items, ConnectionName, <<>>))

\* the version of the request is below 1.1 (a two-token request is 0.9)
ReqBelow11 ==
    IF Len(Words) = 2 THEN TRUE ELSE ~NumGE(Entry(Words[3]), 1, 1)

\* C1: for a three-token request line with a well-formed version, once
\* parse_request has handled the request line close_connection is False
\* exactly when the request version is >= (1,1) and the configured
\* protocol_version is >= HTTP/1.1, and True otherwise.
T_C1_KeepAliveDefault ==
    (ThreeTokenWellFormed /\ (pc = "headers" \/ fault.code = 505))
    => (close_connection = FALSE
        <=> (NumGE(Entry(Words[3]), 1, 1) /\ protocol_version = HTTP11))

W_C1_KeepAliveDefault ==
    /\ ThreeTokenWellFormed
    /\ pc = "headers"
    /\ close_connection = FALSE

\* C2: a cycle that ended in a malformed-request fault (400, 505 or 431) is
\* the last cycle of the connection: handle() has returned and reads no
\* further request line.
CE_C2_FaultCloses ==
    fault.code \in {400, 505, 431} => pc = "closed"

\* C3: every rejection made by parse_request on the request line puts the
\* status line with the matching code and reason phrase on the connection
\* in that cycle.
CE_C3_RejectionEmitsStatus ==
    fault.code \in {400, 505} => StatusWritten(fault.code)

CE_C5_TwoTokenCloses ==
    (Len(Words) = 2 /\ (pc = "dispatch" \/ fault.code = 400))
    => close_connection

\* C6: for a two-token request line whose method is not GET, parse_request
\* fails with 400 Bad Request on the connection, leaves the connection
\* marked for close, reads nothing more from the stream and produces no
\* header collection.
CE_C6_BadLegacyMethod ==
    [][(pc = "parse" /\ Len(Words) = 2 /\ Words[1] # GET)
       => /\ fault'.code = 400
          /\ StatusIn(wfile', wmark', 400)
          /\ close_connection'
          /\ pc' = "closed"
          /\ rfile' = rfile
          /\ headers' = headers]_vars

\* C7: for a three-token request line with a well-formed version, the 505
\* rejection, the keep-alive default and the 100-continue gate all order
\* the request version by its numbers (M, N).
CE_C7_NumericOrdering ==
    ThreeTokenWellFormed
    => /\ (pc \in {"headers", "examine", "dispatch"} \/ fault # NoFault)
          => (fault.code = 505 <=> NumGE(Entry(Words[3]), 2, 0))
       /\ pc = "headers"
          => (close_connection = FALSE
              <=> (NumGE(Entry(Words[3]), 1, 1) /\ protocol_version = HTTP11))
       /\ (/\ pc = "dispatch"
           /\ Lower(Get(headers.items, ExpectKey, <<>>)) = ContinueValue
           /\ protocol_version = HTTP11)
          => (StatusWritten(100) <=> NumGE(Entry(Words[3]), 1, 1))

\* the header block at the head of a stream: the lines up to the first
\* terminator, or all of them and the empty read of the closed stream
Block(rf) ==
    IF \E i \in 1..Len(rf) : IsTerminator(rf[i])
    THEN SubSeq(rf, 1, CHOOSE i \in 1..Len(rf) :
                          /\ IsTerminator(rf[i])
                          /\ \A j \in 1..(i - 1) : ~IsTerminator(rf[j]))
    ELSE Append(rf, EOFLine)

\* C8: reading a header block succeeds exactly when the block has at most
\* 100 lines with its terminator and no line over 65536 bytes; then the
\* lines are delivered in the order read, duplicates kept, and nothing
\* beyond the block is consumed; an over-long line is reported as line too
\* long and a 101st line as too many headers.  (The step is the read that
\* came to its end: a read that timed out logs the timeout.)
T_C8_ReadHeaders ==
    [][(pc = "headers" /\ pc' # "headers" /\ call' = call)
       => LET blk == Block(rfile)
              anyLong == \E i \in 1..Len(blk) : blk[i].len > MAXLINE
              tooMany == Len(blk) > MAXHEADERS
          IN
          /\ pc' = "examine" <=> (~anyLong /\ ~tooMany)
          /\ pc' = "examine"
             => /\ headers'.set
                /\ Len(headers'.items) = Len(blk) - 1
                /\ \A i \in 1..(Len(blk) - 1) :
                      headers'.items[i] = HeaderItem(blk[i])
                /\ rfile' = SubSeq(rfile, Len(blk) + 1, Len(rfile))
          /\ pc' # "examine"
             => /\ fault'.code = 431
                /\ fault'.message \in {"Line too long", "Too many headers"}
                /\ fault'.message = "Line too long" => anyLong
                /\ fault'.message = "Too many headers" => tooMany
                /\ (anyLong /\ ~tooMany) => fault'.message = "Line too long"
                /\ (tooMany /\ ~anyLong) => fault'.message = "Too many headers"]_vars

W_C8_ReadHeaders ==
    /\ pc = "examine"
    /\ Len(headers.items) = MAXHEADERS - 1

\* C9: when the header block exceeds a limit, 431 is written to the
\* connection, the cycle ends without dispatch, and the handler holds no
\* header collection.
CE_C9_HeaderLimitReply ==
    fault.code = 431
    => /\ StatusWritten(431)
       /\ pc \in {"read", "closed"}
       /\ ~headers.set

\* C10: on any cycle, a request line over 65536 bytes makes the handler
\* write 414 and close the connection without parsing the request.
CE_C10_LongRequestLine ==
    fault.code = 414
    => /\ StatusWritten(414)
       /\ pc = "closed"

\* C11: when the read of the request line returns no bytes, or a line
\* without tokens, the cycle writes nothing, does not go on to the headers
\* or the application, and the connection is closed.
T_C11_EmptyReadCloses ==
    [][(\/ pc = "read" /\ cycles' # cycles /\ raw_requestline'.len = 0
        \/ pc = "parse" /\ Words = <<>>)
       => /\ wfile' = wfile
          /\ headers_buffer' = headers_buffer
          /\ close_connection'
          /\ pc' = "closed"]_vars

W_C11_EmptyReadCloses ==
    /\ pc = "closed"
    /\ cycles >= 1
    /\ Words = <<>>
    /\ raw_requestline.len > 0
    /\ fault = NoFault

\* the request of the current cycle carries Expect: 100-continue
ExpectsContinue ==
    Lower(Get(headers.items, ExpectName, <<>>)) = ContinueValue

\* w[m+1..] begins with the 100 Continue status line and a blank line
Interim(w, m) ==
    /\ Len(w) >= m + 2
    /\ w[m + 1] = StatusLine(protocol_version, 100, Phrase(100))
    /\ w[m + 2] = BlankLine

\* C12: for a request with Expect: 100-continue, what the cycle has written
\* when the application is reached begins with the 100 Continue status line
\* and a blank line if the request version and the configured protocol are
\* both >= HTTP/1.1, and holds no interim reply otherwise.
CE_C12_ExpectContinue ==
    [][(pc = "dispatch" /\ ExpectsContinue)
       => IF ~ReqBelow11 /\ protocol_version = HTTP11
          THEN Interim(wfile', wmark)
          ELSE \A i \in (wmark + 1)..Len(wfile') :
                  /\ wfile'[i].t # "raw"
                  /\ ~(wfile'[i].t = "status" /\ wfile'[i].code = 100)]_vars

\* the call made by the step, if the step is a call
Called(ops) == call' # call /\ call'.op \in ops

T_C14_ConnectionHeader ==
    [][Called({"send_header"})
       => LET keyword == call'.args[1]
              value == call'.args[2]
              named == Lower(keyword) = Lower(ConnectionName)
          IN close_connection' =
                IF named /\ Lower(value) = CloseValue THEN TRUE
                ELSE IF named /\ Lower(value) = KeepAliveValue THEN FALSE
                ELSE close_connection]_vars

W_C14_ConnectionHeader ==
    /\ call.op = "send_header"
    /\ call.args = <<ConnectionUpper, KeepAliveMixed>>
    /\ ~close_connection

\* C16 as stated: a second call of end_headers or flush_headers, with no
\* header added since the first, writes nothing.
CE_C16_FlushPathIdempotent ==
    [][(Called({"end_headers", "flush_headers"})
        /\ call.op \in {"end_headers", "flush_headers"})
       => wfile' = wfile]_vars

\* C16 as amended: flush_headers called after end_headers or flush_headers,
\* with no header added in between, writes nothing and leaves the buffer
\* empty; end_headers called again writes one more blank line.
T_C16_FlushIdempotent ==
    [][/\ (Called({"flush_headers"})
           /\ call.op \in {"end_headers", "flush_headers"})
          => wfile' = wfile /\ headers_buffer' = <<>>
       /\ (Called({"end_headers"})
           /\ call.op \in {"end_headers", "flush_headers"}
           /\ request_version # HTTP09 /\ has_headers_buffer)
          => wfile' = Append(wfile, BlankLine)]_vars

W_C16_FlushIdempotent ==
    /\ call.op = "flush_headers"
    /\ call.seq >= 2
    /\ wfile # <<>>
    /\ wfile[Len(wfile)] = BlankLine
    /\ headers_buffer = <<>>

\* the application has called start_response and the call stands
Started == bridge.status_set.set /\ bridge.headers_set.set

\* C15: for an HTTP/0.9 request nothing enters the header buffer, and what
\* the bridge writes for the response is the body bytes only: each write
\* of data, after start_response, puts just that data on the connection.
CE_C15_LegacyBodyOnly ==
    [][request_version = HTTP09
       => /\ bridge'.o.buf = <<>>
          /\ \A i \in 1..Len(bridge'.o.wfile) : bridge'.o.wfile[i].t = "body"
          /\ (Called({"write"}) /\ Started /\ call'.args[1] > 0)
             => bridge'.o.wfile = Append(bridge.o.wfile, Body(call'.args[1]))
      ]_vars

\* C17: once start_response has been called, a call without exc_info
\* raises the headers-already-set error and leaves the recorded status and
\* headers as they were, whatever the first call passed.
CE_C17_SecondStartResponse ==
    [][(Called({"start_response"}) /\ ~call'.args[3] /\ Started)
       => /\ bridge'.o.exc = "AssertionError"
          /\ bridge'.status_set = bridge.status_set
          /\ bridge'.headers_set = bridge.headers_set]_vars

\* the status line and headers of the response went to the connection
PhysicallySent ==
    /\ bridge.status_sent.set
    /\ bridge.o.buf = <<>>

\* C18: start_response with exc_info re-raises and changes nothing when
\* the headers have gone to the connection, whatever the header list; before
\* that it records the new status and headers and returns.
CE_C18_StartResponseExcInfo ==
    [][(Called({"start_response"}) /\ call'.args[3])
       => IF PhysicallySent
          THEN /\ bridge'.o.exc = "AppError"
               /\ bridge'.status_set = bridge.status_set
               /\ bridge'.headers_set = bridge.headers_set
          ELSE /\ bridge'.o.exc = ""
               /\ bridge'.status_set = call'.args[1]
               /\ bridge'.headers_set = call'.args[2]]_vars

\* response status lines among w[m+1..]
StatusLines(w, m) ==
    {i \in (m + 1)..Len(w) : w[i].t = "status" /\ w[i].code # 100}

\* C19: what run_wsgi puts on the connection for one request holds the
\* status line (and with it the header block) at most once, and no body
\* byte ahead of it.
CE_C19_HeadersOnce ==
    [][pc = "dispatch"
       => /\ Cardinality(StatusLines(wfile', Len(wfile))) <= 1
          /\ \A i \in (Len(wfile) + 1)..Len(wfile') :
                (wfile'[i].t = "body" /\ request_version # HTTP09)
                => \E j \in (Len(wfile) + 1)..(i - 1) :
                      wfile'[j].t = "status"]_vars

\* C20: the first write after start_response decides the framing: the
\* bridge turns chunked exactly when there is no Content-Length, the method
\* is not HEAD, the status is none of 1xx, 204, 304 and the protocol is
\* >= HTTP/1.1; otherwise the data is written as it is.
CE_C20_FramingDecision ==
    [][(Called({"write"}) /\ Started /\ ~bridge.status_sent.set)
       => IF ~Framed(bridge, command) /\ protocol_version = HTTP11
          THEN /\ bridge'.chunk_response
               /\ bridge'.o.exc = ""
          ELSE /\ ~bridge'.chunk_response
               /\ bridge'.o.exc = ""
               /\ call'.args[1] > 0
                  => bridge'.o.wfile[Len(bridge'.o.wfile)]
                     = Body(call'.args[1])]_vars

\* the sequence w ends with the elements of tail
EndsWith(w, tail) ==
    /\ Len(w) >= Len(tail)
    /\ SubSeq(w, Len(w) - Len(tail) + 1, Len(w)) = tail

\* C21: for a reply with no Content-Length to a request other than HEAD,
\* with status 200 and HTTP/1.1 on both sides, every write of n > 0 bytes puts
\* the lowercase hexadecimal of n with CRLF, the n bytes and CRLF on the
\* connection, and the end of the iteration puts the last chunk 0 CRLF CRLF
\* after them.
CE_C21_ChunkedFraming ==
    [][(/\ Started
        /\ ~Framed(bridge, command)
        /\ bridge.status_set.code = 200
        /\ protocol_version = HTTP11
        /\ request_version = HTTP11
        /\ bridge.o.exc = "")
       => /\ (Called({"write"}) /\ call'.args[1] > 0)
             => EndsWith(bridge'.o.wfile,
                         <<[t |-> "chunksize", len |-> call'.args[1],
                            text |-> Hex(call'.args[1])],
                           Body(call'.args[1]), ChunkEnd>>)
          /\ Called({"return"})
             => EndsWith(bridge'.o.wfile, <<LastChunk>>)]_vars

\* positions of wfile written since it had m elements that hold a part of a
\* header block
HeaderBytes(w, m) ==
    {i \in (m + 1)..Len(w) : w[i].t \in {"status", "header", "blank"}}

\* C22: whenever run_wsgi writes response headers to the connection, they
\* hold the header Connection: close, close_connection is True when run_wsgi
\* returns, and the handler reads no further request, whatever request
\* parsing had decided.
T_C22_AlwaysClose ==
    [][(pc = "dispatch" /\ HeaderBytes(wfile', Len(wfile)) # {})
       => /\ \E i \in HeaderBytes(wfile', Len(wfile)) :
                wfile'[i] = HeaderLine(ConnectionName, CloseValue)
          /\ close_connection'
          /\ pc' = "closed"]_vars

\* a request that asked for keep-alive under HTTP/1.1 was answered and the
\* connection is closed
W_C22_AlwaysClose ==
    /\ pc = "closed"
    /\ protocol_version = HTTP11
    /\ request_version = HTTP11
    /\ ConnHeader = KeepAliveValue
    /\ \E i \in HeaderBytes(wfile, wmark) : wfile[i].t = "status"
    /\ wfile[Len(wfile)].t = "body"

\* the step in which an exception leaves execute and run_wsgi handles it
Handled == pc = "failed" /\ pc' = "done" /\ call'.op = "except"

\* C23: when the application raises before any byte of the reply was
\* written, run_wsgi drops the status and headers set so far and the peer
\* gets a complete 500 reply: status line, end of the header block.
CE_C23_Fallback500 ==
    [][(/\ Handled
        /\ bridge.o.exc = "AppError"
        /\ bridge.o.wfile = <<>>
        /\ request_version = HTTP11)
       => /\ \E i \in 1..Len(bridge'.o.wfile) :
                /\ bridge'.o.wfile[i].t = "status"
                /\ bridge'.o.wfile[i].code = 500
          /\ \E i \in 1..Len(bridge'.o.wfile) : bridge'.o.wfile[i] = BlankLine]_vars

\* C24: when the application raises after its status line and headers went
\* to the connection, whatever the status and the header list (the empty
\* list included), run_wsgi writes nothing more: no byte is added to the
\* connection or to the header buffer.
T_C24_NoFallbackAfterHeaders ==
    [][(Handled /\ PhysicallySent)
       => /\ bridge'.o.wfile = bridge.o.wfile
          /\ bridge'.o.buf = bridge.o.buf]_vars

\* an application that sent a status line with an empty header list and
\* then raised
W_C24_NoFallbackAfterHeaders ==
    /\ pc = "done"
    /\ call.op = "except"
    /\ request_version = HTTP11
    /\ bridge.status_sent.set
    /\ bridge.headers_sent.items = <<>>
    /\ bridge.o.wfile # <<>>
    /\ bridge.o.wfile[1].t = "status"
    /\ bridge.o.wfile[Len(bridge.o.wfile)] = BlankLine

\* C26: when the handler reads the request line of a further request, every
\* byte of the reply to the request before it has been written to the
\* connection: nothing of it is left in the header buffer.
CE_C26_Sequential ==
    [][(/\ pc = "read"
        /\ cycles >= 1
        /\ cycles' = cycles + 1
        /\ raw_requestline'.len > 0)
       => headers_buffer = <<>>]_vars

\* C25: after every call of the application the socket is drained and the
\* drain ends: execute reaches the end of its finally block having run the
\* drain, with at most 1000 reads made and the loop left as soon as
\* 10,000,000,000 bytes were read or a read returned nothing.
CE_C25_DrainAlways ==
    /\ [](drain.total_reads <= DRAIN_MAX_READS)
    /\ [][(drain.pc = "read" /\ drain'.pc = "select")
          => /\ drain'.total_size > drain.total_size
             /\ drain'.total_size < DRAIN_MAX_SIZE]_vars
    /\ <>(drain.pc = "done" /\ drain.ran)

\* the connection the server sv is handling
CurOf(sv) == sv.conns[Len(sv.conns)]

\* the connection's handling has ended: it was refused, or its handler
\* returned or raised
Ended(c) ==
    c.state \in {"refused", "returned", "Exception", "BaseException"}

\* the step in which close_request is left
Closes == server.pc = "close" /\ server'.pc # "close"

\* the step in which get_request raised OSError
FailedAccept ==
    /\ server.pc = "accept"
    /\ server'.pc # "accept"
    /\ server'.conns = server.conns

\* C27 as stated: whatever exception the handling of a connection raises, it
\* is reported through handle_error, the connection is shut down and the
\* server goes back to its accept loop; a failed accept goes back to the loop
\* as well.
CE_C27_LoopSurvivesAnyException ==
    [][/\ (Closes /\ Cur.state \in {"Exception", "BaseException"})
          => /\ server'.pc = "loop"
             /\ CurOf(server').reported
             /\ CurOf(server').closed
       /\ FailedAccept => server'.pc = "loop"]_vars

\* C27, amended: an Exception raised by the handling of a connection is
\* reported through handle_error, the connection is shut down and closed
\* and the server goes back to its accept loop; a failed accept goes back to
\* the loop; an exception that is no Exception is not reported, the
\* connection is shut down and closed, and serve_forever is left, which
\* happens in no other way.
T_C27_LoopSurvivesException ==
    /\ [][/\ (Closes /\ Cur.state = "Exception")
             => /\ server'.pc = "loop"
                /\ CurOf(server').reported
                /\ CurOf(server').closed
                /\ CurOf(server').wr # "open"
          /\ (Closes /\ Cur.state = "BaseException")
             => /\ server'.pc = "finally"
                /\ ~CurOf(server').reported
                /\ CurOf(server').closed
                /\ CurOf(server').wr # "open"
          /\ FailedAccept => server'.pc = "loop"]_vars
    /\ [](server.pc \in {"finally", "left"}
          => /\ server.conns # <<>>
             /\ Cur.state = "BaseException")

\* a second connection was accepted after the handler of the first raised
W_C27_LoopSurvivesException ==
    /\ Len(server.conns) = 2
    /\ server.conns[1].state = "Exception"
    /\ server.conns[1].reported
    /\ server.conns[1].closed
    /\ server.conns[2].state = "handling"

\* C28: every accepted connection whose handling has ended (refused by
\* verify_request, handler returned, handler raised) is eventually closed,
\* and close comes after the attempt to shut its write side down, whether or
\* not that attempt raised OSError.
T_C28_TornDown ==
    /\ \A i \in 1..MaxConnections :
          (Len(server.conns) >= i /\ Ended(server.conns[i]))
             ~> /\ Len(server.conns) >= i
                /\ server.conns[i].closed
                /\ server.conns[i].wr # "open"
    /\ [](\A i \in 1..Len(server.conns) :
             server.conns[i].closed => server.conns[i].wr # "open")

\* a refused connection was torn down, and so was one whose handler raised
\* and whose shutdown(SHUT_WR) raised OSError
W_C28_TornDown ==
    /\ Len(server.conns) = 2
    /\ server.conns[1].state = "refused"
    /\ server.conns[1].wr = "shut"
    /\ server.conns[1].closed
    /\ server.conns[2].state = "Exception"
    /\ server.conns[2].wr = "failed"
    /\ server.conns[2].closed

\* C29: once serve_forever has left its loop, the listening socket is closed
\* and the completion of the shutdown has been signalled.
CE_C29_CooperativeShutdown ==
    server.pc = "left" => (server.is_shut_down /\ ~server.listening)

\* connections accepted and not closed
InFlight == {i \in 1..Len(server.conns) : ~server.conns[i].closed}

\* C30: at most one connection is in flight, and the server is back in its
\* accept loop only when none is.
T_C30_Serial ==
    /\ Cardinality(InFlight) <= 1
    /\ server.pc \in {"loop", "accept"} => InFlight = {}

\* the second connection is being handled, the first one is closed
W_C30_Serial ==
    /\ Len(server.conns) = 2
    /\ server.conns[1].closed
    /\ server.conns[2].state = "handling"
    /\ InFlight = {2}

(***************************************************************************)
(* C31: under ThreadedWSGIServer a connection that waits while the handler  *)
(* of an earlier one has not ended is accepted all the same, so that two    *)
(* connections are in flight at once.                                       *)
(***************************************************************************)
CE_C31_ThreadedConcurrency ==
    (/\ server.cls = "ThreadedWSGIServer"
     /\ server.pc = "finish"
     /\ server.backlog > 0)
        ~> (Cardinality(InFlight) >= 2)

(***************************************************************************)
(* C35: a threaded or forking server built with a handler class that        *)
(* defines no protocol_version leaves the handler at HTTP/1.1 and reports   *)
(* wsgi.multithread (threaded) or wsgi.multiprocess (forking) as true; a    *)
(* BaseWSGIServer leaves the handler at HTTP/1.0.                           *)
(***************************************************************************)
CE_C35_ServerProtocol ==
    (server.pc # "" /\ server.own = <<>>) =>
        /\ server.cls = "ThreadedWSGIServer" =>
               (server.handler_protocol = HTTP11 /\ server.multithread)
        /\ server.cls = "ForkingWSGIServer" =>
               (server.handler_protocol = HTTP11 /\ server.multiprocess)
        /\ server.cls = "BaseWSGIServer" =>
               server.handler_protocol = HTTP10

(***************************************************************************)
(* C32: a read or write timeout during a request cycle is logged, sets      *)
(* close_connection so that no further request is read on the connection,   *)
(* and does not leave the handler.                                          *)
(***************************************************************************)
\* the step is one in which a timeout was raised: in the reads of
\* handle_one_request, or inside run_wsgi
TimedOut ==
    /\ call' # call
    /\ \/ call'.op = "log_error"
       \/ call'.op = "run_wsgi" /\ call'.args[2] = "TimeoutError"

CE_C32_TimeoutCloses ==
    [][TimedOut => (close_connection' /\ pc' = "closed")]_vars

(***************************************************************************)
(* C36: every request parse_request accepts is dispatched to run_wsgi       *)
(* exactly once in its cycle, whatever its method token, and none is        *)
(* answered with 501.                                                       *)
(***************************************************************************)
T_C36_SingleDispatch ==
    [][/\ (pc = "examine" /\ pc' # pc) => pc' = "dispatch"
       /\ (pc = "dispatch" /\ pc' # pc)
             => /\ call'.op = "run_wsgi"
                /\ call'.args[1] = command
                /\ call'.seq = cycles
                /\ call.seq < cycles
                /\ fault' = NoFault
       /\ (call'.op = "run_wsgi" /\ call' # call) => pc = "dispatch"]_vars

W_C36_SingleDispatch ==
    /\ call.op = "run_wsgi"
    /\ call.args[1] = BADMETHOD
    /\ call.seq = cycles
    /\ pc \in {"read", "closed"}

(***************************************************************************)
(* The response header collection (mywsgiref/headers.py) and its way       *)
(* through the wire format into parse_headers                              *)
(***************************************************************************)

\* largest number of entries of the collection
MaxItems == 3

\* the absent value
None == <<"None">>

\* the same collection with a case-sensitive deletion
delitem_CaseSensitive(h, name) ==
    LET KeptExact(kv) == kv.name # name IN SelectSeq(h, KeptExact)

\* the same serialisation with the names in lower case
Str_Lowered(h) ==
    [i \in 1..Len(h) |->
        Line(Len(h[i].name) + Len(h[i].value) + 4,
             Split(Lower(h[i].name) \o <<":", " ">> \o h[i].value, " "))]
    \o <<CRLF>>

\* Headers.get_all(name): the values stored under name, any letter case
get_all(h, name) ==
    LET Stored(kv) == Lower(kv.name) = Lower(name)
        found == SelectSeq(h, Stored)
    IN [i \in 1..Len(found) |-> found[i].value]

\* Headers.get(name, default): the first value stored under name
get(h, name, default) ==
    IF get_all(h, name) = <<>> THEN default ELSE get_all(h, name)[1]

\* Headers.__delitem__(name): every entry stored under name is dropped
delitem(h, name) ==
    LET Kept(kv) == Lower(kv.name) # Lower(name) IN SelectSeq(h, Kept)

\* Headers.__setitem__(name, val): del self[name], then append
setitem(h, name, val) == Append(delitem(h, name), Item(name, val))

\* Headers.setdefault(name, value): the entries, and the value returned (the
\* branch that appends returns nothing)
setdefault(h, name, value) ==
    IF get(h, name, None) = None
    THEN [h |-> Append(h, Item(name, value)), result |-> None]
    ELSE [h |-> h, result |-> get(h, name, None)]

\* Headers.add_header(_name, _value, **_param): the value is joined with the
\* parameters by "; "; a parameter without a value gives its key, one with a
\* value goes through _formatparam, whose format string '%s="%"s' makes the
\* % operator raise ValueError before anything is appended
add_header(h, name, value, param) ==
    LET parts == (IF value # None THEN <<value>> ELSE <<>>)
                 \o [i \in 1..Len(param) |->
                        [j \in 1..Len(param[i].k) |->
                            IF param[i].k[j] = "_" THEN "-"
                            ELSE param[i].k[j]]]
    IN
    IF \E i \in 1..Len(param) : param[i].v # None /\ Len(param[i].v) > 0
    THEN [h |-> h, exc |-> "ValueError"]
    ELSE [h |-> Append(h, Item(name,
                  JoinWords([i \in 1..Len(parts) |->
                      IF i < Len(parts) THEN parts[i] \o <<";">>
                      ELSE parts[i]]))),
          exc |-> ""]

\* Headers.__str__: a line "name: value" for every entry, then the blank line
Str(h) ==
    [i \in 1..Len(h) |->
        Line(Len(h[i].name) + Len(h[i].value) + 4,
             Split(h[i].name \o <<":", " ">> \o h[i].value, " "))]
    \o <<CRLF>>

\* names and values the callers hand to the collection
HeaderNames == {<<"A">>, <<"a">>, <<"B">>}

HeaderValues == {<<"1">>, <<" ", "1">>}

\* everything but the collection and the last call
OtherVars == <<protocol_version, rfile, peer_closed, sent, wfile,
               headers_buffer, has_headers_buffer, close_connection,
               raw_requestline, request_version, command, headers, fault,
               cycles, wmark, pc, bridge, drain, server>>

\* Headers(headers): the list handed in is the list kept
HeadersInit ==
    /\ Quiet("collection")
    /\ drain = NoDrain
    /\ server = NoServer
    /\ hdrs \in {<<>>, <<Item(<<"a", ":", "b">>, <<"1">>)>>}

AddHeader ==
    /\ pc = "collection"
    /\ Len(hdrs) < MaxItems
    /\ \E name \in HeaderNames, value \in HeaderValues,
          param \in {<<>>, <<[k |-> <<"k">>, v |-> None]>>,
                     <<[k |-> <<"k">>, v |-> <<"x">>]>>} :
          /\ param # <<>> => (name = <<"B">> /\ value = <<"1">>)
          /\ \E r \in {add_header(hdrs, name, value, param)} :
                /\ hdrs' = r.h
                /\ call' = Call("add_header", 0,
                                <<name, value, param, r.exc>>)
    /\ UNCHANGED OtherVars

SetDefault ==
    /\ pc = "collection"
    /\ Len(hdrs) < MaxItems
    /\ \E name \in HeaderNames, value \in HeaderValues :
          \E r \in {setdefault(hdrs, name, value)} :
             /\ hdrs' = r.h
             /\ call' = Call("setdefault", 0, <<name, value, r.result>>)
    /\ UNCHANGED OtherVars

SetItem ==
    /\ pc = "collection"
    /\ \E name \in HeaderNames, val \in HeaderValues :
          /\ Len(setitem(hdrs, name, val)) <= MaxItems
          /\ hdrs' = setitem(hdrs, name, val)
          /\ call' = Call("setitem", 0, <<name, val>>)
    /\ UNCHANGED OtherVars

DelItem ==
    /\ pc = "collection"
    /\ \E name \in HeaderNames :
          /\ hdrs' = delitem(hdrs, name)
          /\ call' = Call("delitem", 0, <<name>>)
    /\ UNCHANGED OtherVars

\* parse_headers(BytesIO(str(h).encode())): the status of the read and the
\* pairs of the message
RoundTrip ==
    /\ pc = "collection"
    /\ \E r \in {ParseHeaders(Str(hdrs), FALSE)} :
          call' = Call("parse_headers", 0, <<r.status, r.items>>)
    /\ UNCHANGED hdrs
    /\ UNCHANGED OtherVars

HeadersNext ==
    \/ AddHeader
    \/ SetDefault
    \/ SetItem
    \/ DelItem
    \/ RoundTrip

HeadersSpec == HeadersInit /\ [][HeadersNext]_vars

\* the values of the entries of h stored under name in any letter case, and
\* the entries stored under other names, both in the order of h
ValuesFor(h, name) ==
    LET At(n) == {i \in 1..n : Lower(h[i].name) = Lower(name)} IN
    [k \in 1..Cardinality(At(Len(h))) |->
        h[CHOOSE i \in At(Len(h)) : Cardinality(At(i)) = k].value]

Others(h, name) ==
    LET Other(kv) == Lower(kv.name) # Lower(name) IN SelectSeq(h, Other)

(***************************************************************************)
(* C33: after any sequence of add_header, setdefault, __setitem__ and       *)
(* __delitem__ calls, get_all(name) and get(name) answer for every letter   *)
(* case of name with the values stored under it, in insertion order; each   *)
(* call leaves the entries of the other names in their relative order;      *)
(* add_header and setdefault only append; after h[name] = v exactly one     *)
(* entry matches name and its value is v; after del h[name] none does.      *)
(***************************************************************************)
T_C33_Collection ==
    [][/\ \A name \in HeaderNames :
             /\ get_all(hdrs', name) = ValuesFor(hdrs', name)
             /\ get(hdrs', name, None) =
                   IF ValuesFor(hdrs', name) = <<>> THEN None
                   ELSE ValuesFor(hdrs', name)[1]
       /\ call'.op \in {"add_header", "setdefault", "setitem", "delitem"}
             => Others(hdrs', call'.args[1]) = Others(hdrs, call'.args[1])
       /\ call'.op = "setitem"
             => /\ ValuesFor(hdrs', call'.args[1]) = <<call'.args[2]>>
                /\ hdrs'[Len(hdrs')] = Item(call'.args[1], call'.args[2])
       /\ call'.op = "delitem" => ValuesFor(hdrs', call'.args[1]) = <<>>
       /\ (call'.op = "add_header" /\ call'.args[4] = "")
             => /\ Len(hdrs') = Len(hdrs) + 1
                /\ SubSeq(hdrs', 1, Len(hdrs)) = hdrs
                /\ hdrs'[Len(hdrs')].name = call'.args[1]
                /\ ValuesFor(hdrs', call'.args[1]) =
                      Append(ValuesFor(hdrs, call'.args[1]),
                             hdrs'[Len(hdrs')].value)
       /\ call'.op = "setdefault"
             => IF ValuesFor(hdrs, call'.args[1]) = <<>>
                THEN hdrs' = Append(hdrs, Item(call'.args[1], call'.args[2]))
                ELSE hdrs' = hdrs
      ]_vars

\* h["a"] = v has replaced an entry stored as "A" that stood between two
\* entries of other names
W_C33_Collection ==
    /\ call.op = "setitem"
    /\ call.args[1] = <<"a">>
    /\ Len(hdrs) = 3
    /\ hdrs[1].name = <<"a", ":", "b">>
    /\ hdrs[2].name = <<"B">>
    /\ hdrs[3] = Item(<<"a">>, call.args[2])

\* an entry whose name is not empty and holds neither a colon nor a space,
\* and whose value does not begin with a space
WellFormed(kv) ==
    /\ kv.name # <<>>
    /\ \A j \in 1..Len(kv.name) : kv.name[j] \notin {":", " "}
    /\ (kv.value = <<>> \/ kv.value[1] # " ")

CE_C37_HeadersOnWire ==
    (bridge.status_sent.set /\ request_version # HTTP09)
        => /\ \E i \in 1..Len(bridge.o.wfile) :
                 /\ bridge.o.wfile[i].t = "status"
                 /\ bridge.o.wfile[i].code = bridge.status_sent.code
           /\ \E i \in 1..Len(bridge.o.wfile) : bridge.o.wfile[i] = BlankLine
           /\ bridge.o.buf = <<>>

(***************************************************************************)
(* C38: whenever the handler stands at the start of a request cycle, about  *)
(* to read a request line, its header buffer is empty.                      *)
(***************************************************************************)
CE_C38_BufferEmptyAtStart ==
    pc = "read" => headers_buffer = <<>>

\* the reply the application has started is one the bridge frames in chunks
ChunkedReply ==
    /\ Started
    /\ ~Framed(bridge, command)
    /\ protocol_version = HTTP11
    /\ request_version = HTTP11

\* positions of the terminator chunk in w
Terminators(w) == {i \in 1..Len(w) : w[i] = LastChunk}

(***************************************************************************)
(* C39: for a reply framed in chunks, a write of no bytes puts no chunk on  *)
(* the connection; the connection never holds more than one terminator      *)
(* chunk; when the iteration ends without an exception of the application   *)
(* the terminator is the last thing on the connection; when the application *)
(* raises after the chunked headers went out, no terminator is written and  *)
(* the connection is marked for close.                                      *)
(***************************************************************************)
CE_C39_Terminator ==
    [][/\ Cardinality(Terminators(bridge'.o.wfile)) <= 1
       /\ (Called({"write"}) /\ ChunkedReply /\ call'.args[1] = 0)
             => \A i \in (Len(bridge.o.wfile) + 1)..Len(bridge'.o.wfile) :
                   bridge'.o.wfile[i].t \notin {"chunksize", "body", "chunkend"}
       /\ (pc = "app" /\ call'.op = "return" /\ ChunkedReply)
             => /\ Cardinality(Terminators(bridge'.o.wfile)) = 1
                /\ bridge'.o.wfile[Len(bridge'.o.wfile)] = LastChunk
       /\ (Handled /\ call.op = "raise" /\ bridge.chunk_response)
             => /\ Terminators(bridge'.o.wfile) = {}
                /\ bridge'.o.close]_vars

(***************************************************************************)
(* C40: when the application has returned an iterable with a close method,  *)
(* close is called on it, once and no more, and only after the iteration    *)
(* and the drain of the socket have ended.                                  *)
(***************************************************************************)
CE_C40_IterableClosed ==
    /\ [](drain.closes <= 1)
    /\ [][drain'.closes # drain.closes
          => (drain.pc = "close" /\ drain.ran /\ drain'.pc = "done")]_vars
    /\ (drain.pc = "iterate" /\ drain.has_close) ~> (drain.closes = 1)

====
